---- MODULE Spec2Model ----
(***************************************************************************)
(* Briefly: the RSS ingestion pipeline (fetch with retries, check-then-    *)
(* insert persistence, keyword filtering) and the job scheduler that       *)
(* drives it, modelled from app/services/*.py and app/routes/*.py.         *)
(***************************************************************************)
EXTENDS Integers, Sequences, FiniteSets, TLC

(* ------------------------------ bounds -------------------------------- *)

\* fetch task bodies started in one behaviour (scheduled, run-now or routed)
MaxFirings == 2

\* entries in one fetched feed document
MaxFeedLen == 2

\* summarize task bodies started in one behaviour
MaxSumFirings == 3

\* the largest semaphore size a direct call of summarize_articles_batch is given
MaxConcurrent == 2

\* the latest time of the scheduler's clock
MaxClock == 1

\* articles in a list handed to a message builder
MaxItems == 11

\* articles in a list handed to KeywordFilter.filter_articles
MaxBatch == 3

\* characters in a text handed to truncate_text, and the largest max_chars
MaxTextLen == 3

(* ------------------------- program constants -------------------------- *)

\* rss_service.py:144  stop=stop_after_attempt(3)
STOP_AFTER_ATTEMPT == 3

\* scheduler_service.py:32  add_job(fetch_rss_task, ..., max_instances=1)
FETCH_MAX_INSTANCES == 1

\* scheduler_service.py:41  add_job(ai_summary_task, ..., max_instances=2)
SUMMARY_MAX_INSTANCES == 2

\* scheduler_service.py:112  .limit(20)
SUMMARY_BATCH_LIMIT == 20

\* if len(summary) > max_length + 50
SUMMARY_SLACK == 50

\* settings.MAX_SUMMARY_LENGTH
DEFAULT_MAX_SUMMARY_LENGTH == 100

\* ai_service.py:274  len(a.content) > 50
MIN_CONTENT_LENGTH == 50

\* scheduler_service.py:126  summarize_articles_batch(articles, db, max_concurrent=5)
JOB_MAX_CONCURRENT == 5

\* webhook_service.py:442  enumerate(articles[:10], 1)
FEISHU_MAX_ITEMS == 10

(* ------------------------------ universe ------------------------------ *)

\* rss_sources rows (ids)
Sources == {1, 2}

\* guids that feed entries carry
Guids == {"g1", "g2"}

\* the coroutines that can run fetch_rss_task at the same time
FetchSlots == {1, 2}

\* the coroutines that can run ai_summary_task at the same time
SumSlots == {1, 2, 3}

\* a fetched document: the guids of its entries, in document order
Feeds == UNION {[1..n -> Guids] : n \in 0..MaxFeedLen}

\* what one HTTP GET + parse of a source can end in, besides a feed
RawFailures == {"timeout", "connect", "http_status", "bozo", "transport_other"}

Outcomes == [kind : {"feed"}, items : Feeds] \cup [kind : RawFailures, items : {<<>>}]

\* the normalized entry extract_entry_data builds for a guid: the lower-cased
\* words of "title description content" and the length of its content
EntryWords(g) == IF g = "g1" THEN {"ai", "news"} ELSE {"main", "news"}

EntryContentLen(g) == IF g = "g1" THEN 51 ELSE IF g = "g2" THEN 50 ELSE 0

VARIABLES
    articles,      \* table articles: a sequence of rows, id = index
    sources,       \* table rss_sources: id -> row
    keywords,      \* table keyword_configs: a sequence of rows, id = index
    hash_order,    \* this process's iteration order of a set of keyword strings
    ai_client,     \* whether an API key is configured (settings row or environment)
    webhook_configs, \* table webhook_configs: the rows with id 1, none or one
    webhook_jobs,  \* the job list of webhook_scheduler's APScheduler instance
    webhook_ret,   \* what the latest push firing or connectivity test did and returned
    call,          \* a library function applied to an argument: the argument, the result
    ai_settings_row, \* whether table ai_settings holds the row with id 1
    filter_pass,   \* the locals of a filter_articles_by_keywords call that runs stepwise
    task,          \* FetchSlots -> the locals of one fetch_rss_task coroutine
    sum_task,      \* SumSlots -> the locals of one ai_summary_task coroutine
    is_running,    \* TaskScheduler._is_running
    jobs,          \* the jobs registered with the APScheduler instance
    last_trigger,  \* what the scheduler did with the latest due trigger
    clock,         \* the scheduler's time
    last_call,     \* the latest call made to a scheduler, and the time it was made
    filter_ret,    \* the list the latest filter_articles_by_keywords returned
    nstarted,      \* number of fetch_rss_task bodies started
    nsum           \* number of ai_summary_task bodies started

\* what no pipeline step writes: the process's hashing, the configuration and
\* the push job derived from it
confVars == <<hash_order, ai_client, webhook_configs, webhook_jobs, webhook_ret, call,
              ai_settings_row, filter_pass>>

storeVars == <<articles, sources, keywords, confVars>>

schedVars == <<is_running, jobs, last_trigger, clock, last_call>>

vars == <<articles, sources, keywords, hash_order, ai_client, webhook_configs, webhook_jobs,
          webhook_ret, call, ai_settings_row, filter_pass, task, sum_task, is_running, jobs, last_trigger, clock, last_call, filter_ret,
          nstarted, nsum>>

(* ----------------------------- exceptions ----------------------------- *)

NoExc == [type |-> "none", cause |-> "none"]

\* rss_service.py:133-140
RETRYABLE_EXCEPTIONS ==
    {"RSSTimeoutError", "RSSNetworkError", "httpx.TimeoutException",
     "httpx.ConnectError", "httpx.ReadTimeout", "httpx.ConnectTimeout"}

\* the exception one run of fetch_rss_feed's body raises for a raw failure
Raised(raw) ==
    CASE raw = "timeout" -> [type |-> "RSSTimeoutError", cause |-> raw]
      [] raw = "connect" -> [type |-> "RSSNetworkError", cause |-> raw]
      [] raw = "http_status" -> [type |-> "RSSNetworkError", cause |-> raw]
      [] raw = "bozo" -> [type |-> "RSSParseError", cause |-> raw]
      [] OTHER -> [type |-> "httpx.TransportError", cause |-> raw]

Retryable(exc) == exc.type \in RETRYABLE_EXCEPTIONS

\* a stop condition that lets a fourth attempt through
RetryAgainFour(exc, attempts) == Retryable(exc) /\ attempts <= STOP_AFTER_ATTEMPT

\* tenacity: another attempt is made iff the exception is retryable and the
\* attempts made so far (this one included) are fewer than stop_after_attempt
RetryAgain(exc, attempts) == Retryable(exc) /\ attempts < STOP_AFTER_ATTEMPT

(* ------------------------------- store -------------------------------- *)

NoFetch == [kind |-> "pending", items |-> <<>>, exc |-> NoExc]

FetchOk(items) == [kind |-> "ok", items |-> items, exc |-> NoExc]

\* a failed attempt that leaves the source waiting for another attempt
StillPending(exc) == NoFetch

FetchErr(exc) == [kind |-> "err", items |-> <<>>, exc |-> exc]

\* the rows of articles with the given natural key
RowsWithKey(source_id, guid) ==
    {i \in DOMAIN articles : articles[i].source_id = source_id /\ articles[i].guid = guid}

\* Article(...) as save_articles constructs it
NewArticle(source_id, guid) ==
    [source_id |-> source_id, guid |-> guid, is_filtered |-> FALSE, has_summary |-> FALSE,
     summary |-> "", is_favorite |-> FALSE]

CountOf(source_id) == Cardinality({i \in DOMAIN articles : articles[i].source_id = source_id})

EnabledSources == {s \in Sources : sources[s].enabled}

Rank(s, S) == Cardinality({x \in S : x <= s})

\* the i-th source of the snapshot, in row order
SourceAt(S, i) == CHOOSE s \in S : Rank(s, S) = i

IdleTask ==
    [pc |-> "idle", origin |-> "none", fno |-> 0, srcs |-> {},
     cnt |-> [s \in Sources |-> 0],          \* fetch_error_count as loaded
     att |-> [s \in Sources |-> 0],
     last_exc |-> [s \in Sources |-> NoExc],
     fetch_results |-> [s \in Sources |-> NoFetch],
     idx |-> 0, k |-> 0, pending |-> <<>>, saved_count |-> 0,
     results |-> <<>>,
     prev |-> [fetched |-> [s \in Sources |-> NoFetch], status |-> "none",
               count |-> [s \in Sources |-> 0]],
     ret |-> [status |-> "none", new_articles |-> 0, filtered_count |-> 0, failed_sources |-> 0]]

\* no filter_articles_by_keywords call is running step by step
IdlePass ==
    [pc |-> "idle", article_ids |-> [given |-> FALSE, ids |-> {}], todo |-> <<>>,
     pending |-> {}, filtered_ids |-> <<>>]

\* the rows article_ids may name in a call of filter_articles_by_keywords
MaxRows == 3

\* the rows of a store with a backlog of articles without summary
MaxStore == 22

\* the configured max_summary_length values, 0 included
MaxSummaryLength == 2

\* the non-blank characters of an AI response
MaxResponseLen == 54

IdleSum ==
    [pc |-> "idle", origin |-> "none",
     batch |-> {},            \* the articles handed to summarize_articles_batch
     objects |-> <<>>,        \* their Article objects as the session loaded them
     max_concurrent |-> 0,    \* the size of its semaphore
     todo |-> {},             \* summarize_with_limit tasks waiting for the semaphore
     inflight |-> {},         \* tasks holding the semaphore
     results |-> <<>>,        \* article -> what its call ended in
     success_count |-> 0,
     status |-> "none"]       \* the status ai_summary_task returned

(* --------------------------- keyword filter --------------------------- *)

\* keyword_service.py:11  min_length: int = 2
MIN_LENGTH == 2

\* len(keyword.strip()) of the keyword texts the model uses
KeywordLen(kw) == IF kw = "x" THEN 1 ELSE 2

EnabledRows == SelectSeq(keywords, LAMBDA r : r.enabled)

\* a query without the enabled filter
load_all_keywords == [i \in 1..Len(keywords) |-> keywords[i].keyword]

\* load_keywords_from_db: the texts of the enabled rows, in row order
load_keywords_from_db == [i \in 1..Len(EnabledRows) |-> EnabledRows[i].keyword]

\* str.lower()
lower(kw) == IF kw = "AI" THEN "ai" ELSE kw

\* KeywordFilter.add_keywords: _original_keywords, and one pattern per entry of
\* it; a keyword shorter than min_length is dropped
OriginalKeywords(kws) == SelectSeq(kws, LAMBDA k : KeywordLen(k) >= MIN_LENGTH)

\* KeywordFilter._keywords: the set of the retained keywords, lower-cased (the
\* rows are stored lower-cased by create_keyword / update_keyword)
KeywordSet(kws) == {lower(OriginalKeywords(kws)[i]) : i \in 1..Len(OriginalKeywords(kws))}

keyword_count(kws) == Cardinality(KeywordSet(kws))

\* list(self._keywords): the set in this process's iteration order
SetAsList(S) == SelectSeq(hash_order, LAMBDA k : k \in S)

\* re.compile(r'\b' + escaped + r'\b', re.IGNORECASE).search(text), on the
\* words of the text
PatternSearch(kw, words) == lower(kw) \in words

RECURSIVE MatchedFrom(_, _, _, _)
MatchedFrom(i, pats, lst, words) ==
    IF i > Len(pats) THEN <<>>
    ELSE (IF PatternSearch(pats[i], words) THEN <<lst[i]>> ELSE <<>>)
         \o MatchedFrom(i + 1, pats, lst, words)

\* list(self._keywords)[i] in matches, for a pattern that has no keyword of the
\* set at its index: IndexError
IndexError(kws, words) ==
    /\ words # {}
    /\ \E i \in 1..Len(OriginalKeywords(kws)) :
          /\ PatternSearch(OriginalKeywords(kws)[i], words)
          /\ i > Len(SetAsList(KeywordSet(kws)))

\* KeywordFilter.matches: (is_match, matched)
matches(kws, words) ==
    LET pats == OriginalKeywords(kws)
        matched == IF words = {} \/ Len(pats) = 0 THEN <<>>
                   ELSE MatchedFrom(1, pats, SetAsList(KeywordSet(kws)), words)
    IN [is_match |-> Len(matched) > 0, matched |-> matched]

\* a check of the title alone
TitleOnly(article) == article.title

\* f"{title} {description} {content}", None taken as '': the words of the three
\* fields
TextToCheck(article) == article.title \cup article.description \cup article.content

RECURSIVE filter_articles(_, _)
\* KeywordFilter.filter_articles: (matched, unmatched), each in the order of the
\* input list
filter_articles(kws, items) ==
    IF items = <<>> THEN [matched |-> <<>>, unmatched |-> <<>>]
    ELSE LET rest == filter_articles(kws, Tail(items))
         IN  IF matches(kws, TextToCheck(items[1])).is_match
             THEN [matched |-> <<items[1]>> \o rest.matched, unmatched |-> rest.unmatched]
             ELSE [matched |-> rest.matched, unmatched |-> <<items[1]>> \o rest.unmatched]

\* text[:max_chars + 1]
truncate_one_more(text, max_chars) ==
    IF Len(text) <= max_chars THEN text ELSE SubSeq(text, 1, max_chars + 1)

\* ai_service.truncate_text
truncate_text(text, max_chars) ==
    IF Len(text) <= max_chars THEN text ELSE SubSeq(text, 1, max_chars)

\* the candidates of a pass: unfiltered rows, restricted to article_ids when it
\* is given and non-empty (None and [] are both falsy)
FilterCandidates(article_ids) ==
    {i \in DOMAIN articles :
        /\ ~articles[i].is_filtered
        /\ (article_ids # {} => i \in article_ids)}

FilterMatched(article_ids) ==
    IF keyword_count(load_keywords_from_db) = 0 THEN {}
    ELSE {i \in FilterCandidates(article_ids) :
            matches(load_keywords_from_db, EntryWords(articles[i].guid)).is_match}

\* how often update_keyword_match_count(db, kw) runs in the pass
Increments(kw, article_ids) ==
    Cardinality({p \in FilterMatched(article_ids) \X (1..Len(keywords)) :
        LET m == matches(load_keywords_from_db, EntryWords(articles[p[1]].guid)).matched
        IN p[2] <= Len(m) /\ m[p[2]] = kw})

FilteredArticles(article_ids) ==
    [i \in DOMAIN articles |->
        IF i \in FilterMatched(article_ids)
        THEN [articles[i] EXCEPT !.is_filtered = TRUE] ELSE articles[i]]

\* a counter assigned the matches of the pass instead of raised by them
AssignedKeywords(article_ids) ==
    [r \in DOMAIN keywords |->
        IF keywords[r].enabled
        THEN [keywords[r] EXCEPT !.match_count = Increments(keywords[r].keyword, article_ids)]
        ELSE keywords[r]]

FilteredKeywords(article_ids) ==
    [r \in DOMAIN keywords |->
        IF keywords[r].enabled
        THEN [keywords[r] EXCEPT !.match_count = @ + Increments(keywords[r].keyword, article_ids)]
        ELSE keywords[r]]

RECURSIVE SortedSeq(_)
SortedSeq(S) ==
    IF S = {} THEN <<>>
    ELSE LET m == CHOOSE x \in S : \A y \in S : x <= y
         IN <<m>> \o SortedSeq(S \ {m})

(* ------------------ the filter pass, commit by commit ------------------ *)

RECURSIVE PassUpdates(_)
\* the calls of update_keyword_match_count that the loop over the matched
\* articles makes, in order: one for each keyword matches reports for an article
PassUpdates(ids) ==
    IF ids = <<>> THEN <<>>
    ELSE LET m == matches(load_keywords_from_db, EntryWords(articles[ids[1]].guid)).matched
         IN  [k \in 1..Len(m) |-> [article |-> ids[1], keyword |-> m[k]]]
             \o PassUpdates(Tail(ids))

\* the rows a commit of the pass's session leaves when the articles of flagged
\* carry an is_filtered the session has not written yet
CommittedFlags(flagged) ==
    [i \in DOMAIN articles |->
        IF i \in flagged THEN [articles[i] EXCEPT !.is_filtered = TRUE] ELSE articles[i]]

\* update_keyword_match_count's query: the enabled rows of a keyword
EnabledRowsOf(kw) == {r \in DOMAIN keywords : keywords[r].keyword = kw /\ keywords[r].enabled}

\* the head of filter_articles_by_keywords: the matcher is built from the enabled
\* keywords, [] is returned when it has none, else the unfiltered rows are read
\* and matched
filter_articles_by_keywords_enter(arg) ==
    /\ filter_pass.pc \in {"idle", "done"}
    /\ IF keyword_count(load_keywords_from_db) = 0
       THEN /\ filter_pass' = [IdlePass EXCEPT !.pc = "done", !.article_ids = arg]
            /\ filter_ret' = <<>>
       ELSE /\ filter_pass' = [pc |-> "loop",
                               article_ids |-> arg,
                               todo |-> PassUpdates(SortedSeq(FilterMatched(arg.ids))),
                               pending |-> {},
                               filtered_ids |-> SortedSeq(FilterMatched(arg.ids))]
            /\ UNCHANGED filter_ret
    /\ UNCHANGED <<articles, sources, keywords, hash_order, ai_client, webhook_configs,
                   webhook_jobs, webhook_ret, call, ai_settings_row, task, sum_task,
                   schedVars, nstarted, nsum>>

\* one turn of the inner loop: the article of the turn has is_filtered set on
\* the session, update_keyword_match_count looks the keyword up and, when an
\* enabled row is found, raises its counter and commits the session
update_keyword_match_count ==
    /\ filter_pass.pc = "loop"
    /\ filter_pass.todo # <<>>
    /\ LET u == Head(filter_pass.todo)
           flagged == filter_pass.pending \cup {u.article}
       IN  IF EnabledRowsOf(u.keyword) = {}
           THEN /\ filter_pass' = [filter_pass EXCEPT !.todo = Tail(@), !.pending = flagged]
                /\ UNCHANGED <<articles, keywords>>
           ELSE /\ filter_pass' = [filter_pass EXCEPT !.todo = Tail(@), !.pending = {}]
                /\ articles' = CommittedFlags(flagged)
                /\ keywords' = [r \in DOMAIN keywords |->
                                  IF r \in EnabledRowsOf(u.keyword)
                                  THEN [keywords[r] EXCEPT !.match_count = @ + 1]
                                  ELSE keywords[r]]
    /\ UNCHANGED <<sources, hash_order, ai_client, webhook_configs, webhook_jobs,
                   webhook_ret, call, ai_settings_row, task, sum_task, schedVars,
                   filter_ret, nstarted, nsum>>

\* the loop is over: the session is committed and the ids are returned
filter_articles_by_keywords_commit ==
    /\ filter_pass.pc = "loop"
    /\ filter_pass.todo = <<>>
    /\ articles' = CommittedFlags(filter_pass.pending)
    /\ filter_ret' = filter_pass.filtered_ids
    /\ filter_pass' = [filter_pass EXCEPT !.pc = "done", !.pending = {}]
    /\ UNCHANGED <<sources, keywords, hash_order, ai_client, webhook_configs, webhook_jobs,
                   webhook_ret, call, ai_settings_row, task, sum_task, schedVars,
                   nstarted, nsum>>

(* ------------------------- fetch_rss_task body ------------------------ *)

RECURSIVE SumPositive(_, _)
SumPositive(f, S) ==
    IF S = {} THEN 0
    ELSE LET x == CHOOSE x \in S : TRUE
         IN (IF f[x] > 0 THEN f[x] ELSE 0) + SumPositive(f, S \ {x})

\* what a starting body remembers of the run this coroutine slot finished before:
\* what it fetched, how it ended, and the per-source row counts it left
PrevRun(t) ==
    [fetched |-> t.fetch_results, status |-> t.ret.status,
     count |-> [s \in Sources |-> CountOf(s)]]

\* the position after source idx of the loop over fetch_results
AfterSource(t) == IF t.idx + 1 > Cardinality(t.srcs) THEN "filter" ELSE "process"

\* fetch_rss_task is entered: the session is opened and the enabled sources are
\* loaded (fetch_and_save_all_sources, first query)
fetch_rss_task_begin(b, origin) ==
    /\ task[b].pc \in {"idle", "done"}
    /\ nstarted < MaxFirings
    /\ nstarted' = nstarted + 1
    /\ task' = [task EXCEPT ![b] =
          [IdleTask EXCEPT !.pc = IF EnabledSources = {} THEN "filter" ELSE "fetch",
                           !.origin = origin,
                           !.fno = nstarted + 1,
                           !.srcs = EnabledSources,
                           !.prev = PrevRun(task[b]),
                           !.cnt = [s \in Sources |-> sources[s].fetch_error_count]]]
    /\ UNCHANGED <<storeVars, sum_task, filter_ret, nsum>>

\* what the decorated call raises when no further attempt is made (reraise=True:
\* the exception of the last attempt itself, not a RetryError around it)
Reraise(exc) == exc

\* one attempt of fetch_rss_feed(source) under the tenacity decorator; att is the
\* attempt number of the call in progress
fetch_rss_feed(b, s, o) ==
    /\ task[b].pc = "fetch"
    /\ s \in task[b].srcs
    /\ task[b].fetch_results[s].kind = "pending"
    /\ LET n == task[b].att[s] + 1
           exc == IF o.kind = "feed" THEN NoExc ELSE Raised(o.kind)
           again == o.kind # "feed" /\ RetryAgain(exc, n)
       IN task' = [task EXCEPT
             ![b].att[s] = IF again THEN n ELSE 0,
             ![b].last_exc[s] = exc,
             ![b].fetch_results[s] =
                 IF o.kind = "feed" THEN FetchOk(o.items)
                 ELSE IF again THEN NoFetch
                 ELSE FetchErr(Reraise(exc))]
    /\ UNCHANGED <<storeVars, schedVars, sum_task, filter_ret, nstarted, nsum>>

\* asyncio.gather returns once every fetch_single_source has returned
gather(b) ==
    /\ task[b].pc = "fetch"
    /\ \A s \in task[b].srcs : task[b].fetch_results[s].kind # "pending"
    /\ task' = [task EXCEPT ![b].pc = "process", ![b].idx = 1]
    /\ UNCHANGED <<storeVars, schedVars, sum_task, filter_ret, nstarted, nsum>>

Extend(f, s, v) == [x \in (DOMAIN f) \cup {s} |-> IF x = s THEN v ELSE f[x]]

\* the success tail of the loop body: last_fetched, fetch_error_count = 0, commit
MarkSuccess(b, s, saved) ==
    /\ sources' = [sources EXCEPT ![s].fetch_error_count = 0,
                                  ![s].last_fetched = task[b].fno]
    /\ task' = [task EXCEPT ![b].results = Extend(@, s, saved),
                            ![b].idx = @ + 1,
                            ![b].pc = AfterSource(task[b])]

\* one iteration of the loop over fetch_results, up to its first await inside
\* save_articles
process_result(b) ==
    /\ task[b].pc = "process"
    /\ LET s == SourceAt(task[b].srcs, task[b].idx)
           r == task[b].fetch_results[s]
       IN CASE r.kind = "err" ->
                 /\ sources' = [sources EXCEPT ![s].fetch_error_count = task[b].cnt[s] + 1]
                 /\ task' = [task EXCEPT ![b].results = Extend(@, s, -1),
                                         ![b].idx = @ + 1,
                                         ![b].pc = AfterSource(task[b])]
            [] r.kind = "ok" /\ r.items = <<>> -> MarkSuccess(b, s, 0)
            [] OTHER ->
                 /\ task' = [task EXCEPT ![b].pc = "save", ![b].k = 1,
                                         ![b].saved_count = 0, ![b].pending = <<>>]
                 /\ UNCHANGED sources
    /\ UNCHANGED <<articles, keywords, confVars, schedVars, sum_task, filter_ret,
                   nstarted, nsum>>

\* is_duplicate_article: None, the row, or MultipleResultsFound
is_duplicate_article(source_id, guid) ==
    CASE Cardinality(RowsWithKey(source_id, guid)) = 0 -> "absent"
      [] Cardinality(RowsWithKey(source_id, guid)) = 1 -> "present"
      [] OTHER -> "MultipleResultsFound"

\* one iteration of save_articles' loop: the query sees committed rows only
\* (autoflush=False), then the row is added to the session or skipped
save_articles_item(b) ==
    /\ task[b].pc = "save"
    /\ LET s == SourceAt(task[b].srcs, task[b].idx)
           items == task[b].fetch_results[s].items
           guid == items[task[b].k]
           dup == is_duplicate_article(s, guid)
       IN /\ task[b].k <= Len(items)
          /\ CASE dup = "MultipleResultsFound" ->
                    \* propagates to fetch_rss_task's except: status error
                    /\ task' = [task EXCEPT ![b].pc = "done", ![b].pending = <<>>,
                                            ![b].results = <<>>,
                                            ![b].ret = [IdleTask.ret EXCEPT !.status = "error"]]
               [] dup = "present" ->
                    /\ task' = [task EXCEPT ![b].k = @ + 1]
               [] OTHER ->
                    /\ task' = [task EXCEPT ![b].k = @ + 1,
                                            ![b].pending = Append(@, NewArticle(s, guid)),
                                            ![b].saved_count = @ + 1]
    /\ UNCHANGED <<storeVars, schedVars, sum_task, filter_ret, nstarted, nsum>>

\* save_articles' db.commit(): the added rows are inserted
save_articles_commit(b) ==
    /\ task[b].pc = "save"
    /\ task[b].k > Len(task[b].fetch_results[SourceAt(task[b].srcs, task[b].idx)].items)
    /\ articles' = articles \o task[b].pending
    /\ task' = [task EXCEPT ![b].pc = "mark", ![b].pending = <<>>]
    /\ UNCHANGED <<sources, keywords, confVars, schedVars, sum_task, filter_ret,
                   nstarted, nsum>>

\* back in the loop after save_articles returned
mark_fetched(b) ==
    /\ task[b].pc = "mark"
    /\ MarkSuccess(b, SourceAt(task[b].srcs, task[b].idx), task[b].saved_count)
    /\ UNCHANGED <<articles, keywords, confVars, schedVars, sum_task, filter_ret,
                   nstarted, nsum>>

\* filter_articles_by_keywords(db) and the return of fetch_rss_task
filter_step(b) ==
    /\ task[b].pc = "filter"
    /\ articles' = FilteredArticles({})
    /\ keywords' = FilteredKeywords({})
    /\ filter_ret' = SortedSeq(FilterMatched({}))
    /\ task' = [task EXCEPT ![b].pc = "done",
          ![b].ret = [status |-> "success",
                      new_articles |-> SumPositive(task[b].results, DOMAIN task[b].results),
                      filtered_count |-> Cardinality(FilterMatched({})),
                      failed_sources |-> Cardinality({s \in DOMAIN task[b].results :
                                                        task[b].results[s] < 0})]]
    /\ UNCHANGED <<sources, confVars, schedVars, sum_task, nstarted, nsum>>

(* ------------------------------- routes ------------------------------- *)

\* POST /api/fetch and POST /api/fetch/start: fetch_rss_task on a fresh loop
trigger_fetch(b) == fetch_rss_task_begin(b, "route") /\ UNCHANGED schedVars

\* POST /api/keywords/{id}/toggle
toggle_keyword(r) ==
    /\ r \in DOMAIN keywords
    /\ keywords' = [keywords EXCEPT ![r].enabled = ~@]
    /\ UNCHANGED <<articles, sources, confVars, task, sum_task, schedVars, filter_ret,
                   nstarted, nsum>>

\* POST /api/keywords/apply-filter
apply_keyword_filter ==
    /\ articles' = FilteredArticles({})
    /\ keywords' = FilteredKeywords({})
    /\ filter_ret' = SortedSeq(FilterMatched({}))
    /\ UNCHANGED <<sources, confVars, task, sum_task, schedVars, nstarted, nsum>>

(* ------------------------------ scheduler ----------------------------- *)

\* ai_summary_task is entered: the batch is selected; an empty batch returns at once
\* a selection without the limit and without the is_filtered test
AllUnsummarized == {i \in DOMAIN articles : ~articles[i].has_summary}

SummaryBatch ==
    {i \in DOMAIN articles :
        /\ ~articles[i].has_summary
        /\ ~articles[i].is_filtered
        /\ EntryContentLen(articles[i].guid) > 0
        /\ Cardinality({j \in DOMAIN articles :
                          /\ j < i
                          /\ ~articles[j].has_summary
                          /\ ~articles[j].is_filtered
                          /\ EntryContentLen(articles[j].guid) > 0}) < SUMMARY_BATCH_LIMIT}

\* the status in the dict ai_summary_task returns after its batch; a direct call
\* of summarize_articles_batch has no such dict
\* the Article objects a query of the session returns for the rows of ids; the
\* session does not expire or refresh them
Loaded(ids) == [i \in ids |-> articles[i]]

TaskStatus(origin) == IF origin = "direct" THEN "none" ELSE "success"

ai_summary_task_begin(j, origin) ==
    /\ sum_task[j].pc \in {"idle", "done"}
    /\ nsum < MaxSumFirings
    /\ nsum' = nsum + 1
    /\ sum_task' = [sum_task EXCEPT ![j] =
          [IdleSum EXCEPT !.pc = IF SummaryBatch = {} THEN "done" ELSE "summarize",
                          !.status = IF SummaryBatch = {} THEN "success" ELSE "none",
                          !.origin = origin,
                          !.batch = SummaryBatch,
                          !.objects = Loaded(SummaryBatch),
                          !.max_concurrent = JOB_MAX_CONCURRENT]]
    /\ UNCHANGED <<storeVars, task, filter_ret, nstarted>>

\* an eligibility test that admits content of exactly the minimum length
ArticlesAtLeastMinimum(objects) ==
    {i \in DOMAIN objects :
        /\ ~objects[i].has_summary
        /\ EntryContentLen(objects[i].guid) >= MIN_CONTENT_LENGTH}

\* the articles of a loaded batch that summarize_articles_batch sends to the
\* model: the test reads the objects it was handed, not the table
ArticlesToSummarize(objects) ==
    {i \in DOMAIN objects :
        /\ ~objects[i].has_summary
        /\ EntryContentLen(objects[i].guid) > MIN_CONTENT_LENGTH}

\* summarize_articles_batch: the calls of ok succeed, the others fail or return
\* nothing (all of them when no client is configured); one commit at the end
\* the settings row that a get_ai_settings which adds nothing leaves
RowNotAdded(row) == row

\* get_ai_settings: the row with id 1 is there when it returns
get_ai_settings(row) == TRUE

\* get_ai_settings commits the session when it had to add the row
CommitsSession(row) == ~row

\* what the pipeline steps leave alone besides the settings row
otherConf == <<hash_order, ai_client, webhook_configs, webhook_jobs, webhook_ret, call,
               filter_pass>>

summarize_articles_batch(j, ok) ==
    /\ sum_task[j].pc = "summarize"
    /\ ok \subseteq ArticlesToSummarize(sum_task[j].objects)
    /\ ai_client = "none" => ok = {}
    /\ ai_settings_row' = IF ArticlesToSummarize(sum_task[j].objects) = {} THEN ai_settings_row
                          ELSE get_ai_settings(ai_settings_row)
    /\ articles' = [i \in DOMAIN articles |->
                      IF i \in ok
                      THEN [articles[i] EXCEPT !.summary = "summary", !.has_summary = TRUE]
                      ELSE articles[i]]
    /\ sum_task' = [sum_task EXCEPT ![j].pc = "done", ![j].batch = {}, ![j].objects = <<>>,
                                    ![j].success_count = Cardinality(ok),
                                    ![j].status = TaskStatus(sum_task[j].origin)]
    /\ UNCHANGED <<sources, keywords, otherConf, task, schedVars, filter_ret,
                   nstarted, nsum>>

(* --------------------- summarize_articles_batch, stepwise ------------- *)

\* what one summarize_article_async call ends in: a summary, an empty text, one of
\* the AISummaryError subclasses, or an exception of another class
AIOutcomes == {"summary", "empty", "rate_limit", "timeout", "api_error", "other_exception"}

\* a semaphore that admits every task
AlwaysAdmits(held, max_concurrent) == TRUE

\* asyncio.Semaphore(max_concurrent): a task enters while fewer than
\* max_concurrent tasks hold it
SemaphoreAdmits(held, max_concurrent) == Cardinality(held) < max_concurrent

\* a lookup that always finds a client
ClientFound == FALSE

\* get_async_ai_client_from_settings returned None
ClientIsNone == ai_client = "none"

\* a task that reports success whatever the call ended in
AlwaysTrue(out) == TRUE

\* a test that takes every text the call returns, the empty one too, for a summary
NotNone(out) == out \in {"summary", "empty"}

\* summarize_with_limit returns True: the call returned a non-empty summary, which
\* is set on the article together with has_summary
ReturnsTrue(out) == out = "summary"

\* the text summarize_article_async returns when it returns: the response stripped
\* and cut, which is empty for a response of blanks
ReturnedText(out) == IF out = "summary" THEN "summary" ELSE ""

\* summarize_articles_batch(articles, db, max_concurrent) is called on a list of
\* loaded articles
call_summarize_articles_batch(j, batch, max_concurrent) ==
    /\ sum_task[j].pc \in {"idle", "done"}
    /\ nsum < MaxSumFirings
    /\ nsum' = nsum + 1
    /\ sum_task' = [sum_task EXCEPT ![j] =
          [IdleSum EXCEPT !.pc = "summarize",
                          !.origin = "direct",
                          !.batch = batch,
                          !.objects = Loaded(batch),
                          !.max_concurrent = max_concurrent]]
    /\ UNCHANGED <<storeVars, schedVars, task, filter_ret, nstarted>>

\* the articles whose task returned True
Summarized(results) == {i \in DOMAIN results : ReturnsTrue(results[i])}

\* the rows as a commit of the session leaves them when the articles of done
\* carry a summary the session has not written yet
CommittedSummaries(done, results) ==
    [i \in DOMAIN articles |->
        IF i \in done
        THEN [articles[i] EXCEPT !.summary = ReturnedText(results[i]), !.has_summary = TRUE]
        ELSE articles[i]]

\* the head of summarize_articles_batch: the eligible articles are picked and the
\* client is looked up from the settings row, which is added when missing; 0 is
\* returned when no article is eligible or there is no client
summarize_articles_batch_enter(j) ==
    /\ sum_task[j].pc = "summarize"
    /\ ai_settings_row' = IF ArticlesToSummarize(sum_task[j].objects) = {} THEN ai_settings_row
                          ELSE get_ai_settings(ai_settings_row)
    /\ sum_task' = [sum_task EXCEPT ![j] =
          IF ArticlesToSummarize(sum_task[j].objects) = {} \/ ClientIsNone
          THEN [@ EXCEPT !.pc = "done", !.success_count = 0,
                         !.status = TaskStatus(sum_task[j].origin)]
          ELSE [@ EXCEPT !.pc = "gather",
                         !.todo = ArticlesToSummarize(sum_task[j].objects)]]
    /\ UNCHANGED <<articles, sources, keywords, otherConf, schedVars, task, filter_ret,
                   nstarted, nsum>>

\* summarize_with_limit(article) enters the semaphore and summarize_article_async
\* reads the settings with get_ai_settings on the shared session, then starts its
\* call; a commit made there writes the summaries set so far
summarize_with_limit_acquire(j, i) ==
    /\ sum_task[j].pc = "gather"
    /\ i \in sum_task[j].todo
    /\ SemaphoreAdmits(sum_task[j].inflight, sum_task[j].max_concurrent)
    /\ ai_settings_row' = get_ai_settings(ai_settings_row)
    /\ articles' = IF CommitsSession(ai_settings_row)
                   THEN CommittedSummaries(Summarized(sum_task[j].results), sum_task[j].results)
                   ELSE articles
    /\ sum_task' = [sum_task EXCEPT ![j].todo = @ \ {i},
                                    ![j].inflight = @ \cup {i}]
    /\ UNCHANGED <<sources, keywords, otherConf, schedVars, task, filter_ret, nstarted,
                   nsum>>

\* the call of summarize_with_limit(article) ends and the semaphore is left
summarize_with_limit_return(j, i, out) ==
    /\ sum_task[j].pc = "gather"
    /\ i \in sum_task[j].inflight
    /\ sum_task' = [sum_task EXCEPT ![j].inflight = @ \ {i},
                                    ![j].results = Extend(@, i, out)]
    /\ UNCHANGED <<storeVars, schedVars, task, filter_ret, nstarted, nsum>>

\* gather has returned: the True results are counted and the session is committed
summarize_articles_batch_commit(j) ==
    /\ sum_task[j].pc = "gather"
    /\ sum_task[j].todo = {}
    /\ sum_task[j].inflight = {}
    /\ articles' = CommittedSummaries(Summarized(sum_task[j].results), sum_task[j].results)
    /\ sum_task' = [sum_task EXCEPT ![j].pc = "done",
                                    ![j].status = TaskStatus(sum_task[j].origin),
                                    ![j].success_count =
                                        Cardinality(Summarized(sum_task[j].results))]
    /\ UNCHANGED <<sources, keywords, confVars, task, schedVars, filter_ret,
                   nstarted, nsum>>

\* summarize_single_article(db, article_id) on the session of its request: an
\* article that has a summary, or whose content is missing or shorter than the
\* minimum, is left alone; else the settings are read, the call is made when a
\* client is configured, and a non-empty text it returns is set with has_summary
\* and committed
summarize_single_article(i, out) ==
    /\ i \in DOMAIN articles
    /\ ~articles[i].has_summary
    /\ EntryContentLen(articles[i].guid) >= MIN_CONTENT_LENGTH
    /\ ai_settings_row' = get_ai_settings(ai_settings_row)
    /\ articles' = IF ~ClientIsNone /\ ReturnsTrue(out)
                   THEN [articles EXCEPT ![i].summary = ReturnedText(out),
                                         ![i].has_summary = TRUE]
                   ELSE articles
    /\ UNCHANGED <<sources, keywords, otherConf, task, sum_task, schedVars, filter_ret,
                   nstarted, nsum>>

\* a test that never finds the scheduler running
NeverRunning == FALSE

\* start's test of self._is_running
AlreadyRunning == is_running

\* TaskScheduler.start: a warning and nothing else when already running; else
\* both jobs are added, their triggers computed from the present time
start ==
    /\ last_call' = [op |-> "start", at |-> clock]
    /\ IF AlreadyRunning
       THEN UNCHANGED <<is_running, jobs>>
       ELSE /\ jobs' = {[id |-> "fetch_rss", max_instances |-> FETCH_MAX_INSTANCES,
                         anchor |-> clock],
                        [id |-> "ai_summary", max_instances |-> SUMMARY_MAX_INSTANCES,
                         anchor |-> clock]}
            /\ is_running' = TRUE
    /\ UNCHANGED <<storeVars, task, sum_task, last_trigger, clock, filter_ret,
                   nstarted, nsum>>

\* the firings of a job that have not returned
RunningFetch(origin) ==
    {b \in FetchSlots : task[b].origin = origin /\ task[b].pc \notin {"idle", "done"}}

RunningSummary(origin) ==
    {j \in SumSlots : sum_task[j].origin = origin /\ sum_task[j].pc \notin {"idle", "done"}}

RunningInstances(id) ==
    IF id = "fetch_rss" THEN Cardinality(RunningFetch("job"))
    ELSE Cardinality(RunningSummary("job"))

\* a firing the executor refuses to start
NeverReached(job, running) == FALSE

\* the executor's test on submitting a firing of a job
MaxInstancesReached(job, running) == running >= job.max_instances

FreeFetchSlots == {b \in FetchSlots : task[b].pc \in {"idle", "done"}}

FreeSumSlots == {j \in SumSlots : sum_task[j].pc \in {"idle", "done"}}

Lowest(S) == CHOOSE x \in S : \A y \in S : x <= y

\* the trigger time of a registered job arrives: the firing starts unless the job
\* has max_instances firings running, and then it is dropped
fire_job(id) ==
    /\ is_running
    /\ \E job \in jobs :
        /\ job.id = id
        /\ IF MaxInstancesReached(job, RunningInstances(id))
           THEN /\ last_trigger' = [job |-> id, outcome |-> "skipped"]
                /\ UNCHANGED <<storeVars, task, sum_task, filter_ret, nstarted, nsum>>
           ELSE /\ last_trigger' = [job |-> id, outcome |-> "run"]
                /\ IF id = "fetch_rss"
                   THEN /\ FreeFetchSlots # {}
                        /\ fetch_rss_task_begin(Lowest(FreeFetchSlots), "job")
                        /\ UNCHANGED sum_task
                   ELSE /\ FreeSumSlots # {}
                        /\ ai_summary_task_begin(Lowest(FreeSumSlots), "job")
    /\ UNCHANGED <<is_running, jobs, clock, last_call>>

\* a run_now that hands the task to the scheduler as a due firing
run_as_firing(task_id) == fire_job(task_id)

\* TaskScheduler.run_now: the task body is called directly, past the executor;
\* an id that names no task is logged and None is returned
run_now(task_id) ==
    /\ CASE task_id = "fetch_rss" ->
              /\ FreeFetchSlots # {}
              /\ fetch_rss_task_begin(Lowest(FreeFetchSlots), "run_now")
              /\ UNCHANGED sum_task
         [] task_id = "ai_summary" ->
              /\ FreeSumSlots # {}
              /\ ai_summary_task_begin(Lowest(FreeSumSlots), "run_now")
         [] OTHER ->
              UNCHANGED <<storeVars, task, sum_task, filter_ret, nstarted, nsum>>
    /\ UNCHANGED schedVars

\* a firing cancelled at an await: the session is closed without a commit and
\* nothing is returned
CancelledFetch(t) ==
    [t EXCEPT !.pc = "done", !.pending = <<>>, !.results = <<>>,
              !.ret = [IdleTask.ret EXCEPT !.status = "cancelled"]]

CancelledSummary(t) ==
    [IdleSum EXCEPT !.pc = "done", !.origin = t.origin, !.status = "cancelled"]

\* TaskScheduler.stop: nothing unless the scheduler runs; else it is shut down.
\* The shutdown of the job store keeps the jobs or drops them; a firing of a job
\* that has not returned is cancelled by the executor's shutdown or runs on
stop ==
    /\ last_call' = [op |-> "stop", at |-> clock]
    /\ IF is_running
       THEN /\ is_running' = FALSE
            /\ jobs' \in {jobs, {}}
            /\ \E cf \in SUBSET RunningFetch("job"), cs \in SUBSET RunningSummary("job") :
                 /\ task' = [b \in FetchSlots |->
                               IF b \in cf THEN CancelledFetch(task[b]) ELSE task[b]]
                 /\ sum_task' = [j \in SumSlots |->
                               IF j \in cs THEN CancelledSummary(sum_task[j]) ELSE sum_task[j]]
       ELSE UNCHANGED <<is_running, jobs, task, sum_task>>
    /\ UNCHANGED <<storeVars, last_trigger, clock, filter_ret, nstarted, nsum>>

\* time passes
tick ==
    /\ clock < MaxClock
    /\ clock' = clock + 1
    /\ UNCHANGED <<storeVars, task, sum_task, is_running, jobs, last_trigger, last_call,
                   filter_ret, nstarted, nsum>>

(* --------------------- exceptions in the task bodies ------------------ *)

\* exceptions that a statement inside the try of a task body raises: a failed
\* query or commit, a programming error
Faults == {"OperationalError", "TypeError"}

\* a body without the try: the exception leaves the coroutine
Propagate(exc) == "raised"

\* except Exception as e: return {"status": "error", "message": str(e)}
ReturnOnException(exc) == "error"

\* an exception raised at some statement of fetch_rss_task's try: the session is
\* closed without a commit and the error dict is returned
fetch_rss_task_raise(b, exc) ==
    /\ task[b].pc \notin {"idle", "done"}
    /\ task' = [task EXCEPT ![b].pc = "done", ![b].pending = <<>>, ![b].results = <<>>,
                            ![b].ret = [IdleTask.ret EXCEPT !.status = ReturnOnException(exc)]]
    /\ UNCHANGED <<storeVars, schedVars, sum_task, filter_ret, nstarted, nsum>>

\* an exception raised at some statement of ai_summary_task's try
ai_summary_task_raise(j, exc) ==
    /\ sum_task[j].pc \notin {"idle", "done"}
    /\ sum_task[j].origin # "direct"
    /\ sum_task' = [sum_task EXCEPT ![j] =
          [IdleSum EXCEPT !.pc = "done", !.origin = sum_task[j].origin,
                          !.status = ReturnOnException(exc)]]
    /\ UNCHANGED <<storeVars, schedVars, task, filter_ret, nstarted, nsum>>

(* ------------------------- the webhook push job ------------------------ *)

\* the values WebhookConfigUpdate admits for the schedule fields; a time of day
\* is the string of its characters
Frequencies == {"hourly", "daily", "weekly", "monthly"}

ScheduleTimes == {<<"0", "9", ":", "0", "0">>, <<"9", ":", "0", "5">>,
                  <<"2", "3", ":", "5", "9">>}

DaysOfWeek == {1, 7}

DaysOfMonth == {1, 28}

\* a request body: <<>> for a field left out (None), <<v>> for a field given
Optional(S) == {<<>>} \cup {<<v>> : v \in S}

Platforms == {"wecom", "dingtalk", "feishu", "feishu-card", "feishu-flow", "generic"}

\* url values a request body carries: blank, or an address
Urls == {" ", "https://hook"}

WebhookConfigUpdate ==
    [enabled : Optional(BOOLEAN), url : Optional(Urls), platform : Optional(Platforms),
     schedule_enabled : Optional(BOOLEAN), schedule_frequency : Optional(Frequencies),
     schedule_time : Optional(ScheduleTimes), schedule_day_of_week : Optional(DaysOfWeek),
     schedule_day_of_month : Optional(DaysOfMonth),
     push_favorites : Optional(BOOLEAN), push_filtered : Optional(BOOLEAN)]

\* the url column holding None
NoUrl == ""

\* the column defaults of WebhookConfig
DefaultWebhookConfig ==
    [enabled |-> FALSE, url |-> NoUrl, platform |-> "generic",
     schedule_enabled |-> FALSE, schedule_frequency |-> "hourly",
     schedule_time |-> <<"0", "9", ":", "0", "0">>, schedule_day_of_week |-> 1,
     schedule_day_of_month |-> 1, push_favorites |-> TRUE, push_filtered |-> FALSE]

NoCall == [fn |-> "none"]

InitWebhook ==
    /\ webhook_configs = <<>>
    /\ webhook_jobs = <<>>
    /\ webhook_ret = [op |-> "none"]

get_or_create_webhook_config(table) ==
    IF table = <<>> THEN <<DefaultWebhookConfig>> ELSE table

\* str.strip() of the url values
strip(str) == IF str = " " THEN "" ELSE str

\* update_webhook_config's assignments: a field is written when it is given, the
\* url stripped and stored as None when nothing is left of it
AssignGiven(config, settings) ==
    [f \in DOMAIN config |->
        IF settings[f] = <<>> THEN config[f]
        ELSE IF f = "url" THEN (IF strip(settings[f][1]) # "" THEN strip(settings[f][1])
                               ELSE NoUrl)
        ELSE settings[f][1]]

DigitChars == <<"0", "1", "2", "3", "4", "5", "6", "7", "8", "9">>

DigitValue(c) == (CHOOSE i \in DOMAIN DigitChars : DigitChars[i] = c) - 1

RECURSIVE int(_)
int(str) ==
    IF str = <<>> THEN 0
    ELSE 10 * int(SubSeq(str, 1, Len(str) - 1)) + DigitValue(str[Len(str)])

\* str.split(":") of a string with one colon
split(str) ==
    LET at == CHOOSE i \in DOMAIN str : str[i] = ":"
    IN  <<SubSeq(str, 1, at - 1), SubSeq(str, at + 1, Len(str))>>

NoField == <<>>

\* IntervalTrigger(hours=1): its start date is taken from the time it is built at
IntervalTrigger(hours, now) ==
    [kind |-> "interval", hours |-> <<hours>>, start_date |-> <<now>>,
     day_of_week |-> NoField, day |-> NoField, hour |-> NoField, minute |-> NoField]

CronTrigger(day_of_week, day, hour, minute) ==
    [kind |-> "cron", hours |-> NoField, start_date |-> NoField,
     day_of_week |-> day_of_week, day |-> day, hour |-> <<hour>>, minute |-> <<minute>>]

\* the loop over scheduler.get_jobs() that leaves every other job in the list
KeepJobs(job_list) == job_list

\* the loop over scheduler.get_jobs() removing the jobs with id "webhook_push"
RemovePushJobs(job_list) == SelectSeq(job_list, LAMBDA job : job.id # "webhook_push")

\* scheduler.add_job on a scheduler that was not started: the job is appended to
\* the pending jobs (start_webhook_scheduler has no caller in the application)
add_job(job_list, trigger) == Append(job_list, [id |-> "webhook_push", trigger |-> trigger])

\* update_webhook_schedule: the job list it leaves, from the list it finds, the
\* rows with id 1 and the present time
update_webhook_schedule(job_list, table, now) ==
    LET removed == RemovePushJobs(job_list)
    IN  IF table = <<>> \/ ~table[1].schedule_enabled THEN removed
        ELSE LET config == table[1]
                 time_parts == split(config.schedule_time)
                 hour == int(time_parts[1])
                 minute == int(time_parts[2])
             IN  CASE config.schedule_frequency = "hourly" ->
                        add_job(removed, IntervalTrigger(1, now))
                   [] config.schedule_frequency = "daily" ->
                        add_job(removed, CronTrigger(NoField, NoField, hour, minute))
                   [] config.schedule_frequency = "weekly" ->
                        add_job(removed, CronTrigger(<<config.schedule_day_of_week - 1>>,
                                                     NoField, hour, minute))
                   [] config.schedule_frequency = "monthly" ->
                        add_job(removed, CronTrigger(NoField, <<config.schedule_day_of_month>>,
                                                     hour, minute))
                   [] OTHER -> removed

\* POST /api/webhook/config: the row is created if missing, the given fields are
\* written and committed, then the push job is rebuilt
update_webhook_config(settings) ==
    /\ webhook_configs' = <<AssignGiven(get_or_create_webhook_config(webhook_configs)[1],
                                        settings)>>
    /\ webhook_jobs' = update_webhook_schedule(webhook_jobs, webhook_configs', clock)
    /\ last_call' = [op |-> "update_webhook_config", at |-> clock,
                     removed |-> Len(webhook_jobs) - Len(RemovePushJobs(webhook_jobs))]
    /\ UNCHANGED <<articles, sources, keywords, hash_order, ai_client, ai_settings_row,
                   filter_pass, webhook_ret, call,
                   task, sum_task, is_running, jobs, last_trigger, clock, filter_ret,
                   nstarted, nsum>>

(* ------------------------------ notifier ------------------------------ *)

Min(a, b) == IF a <= b THEN a ELSE b

\* list[:n]
FirstN(list, n) == SubSeq(list, 1, Min(n, Len(list)))

\* build_feishu_favorites_message: a header with len(articles), then one element
\* for each of the first ten articles
build_feishu_favorites_message(format, items) ==
    [format |-> format, count |-> Len(items), rendered |-> FirstN(items, FEISHU_MAX_ITEMS)]

\* build_feishu_flow_favorites_message, build_wecom_favorites_message,
\* build_dingtalk_favorites_message, build_generic_favorites_message: a header
\* with len(articles), then one line for each article of the list
build_list_message(format, items) ==
    [format |-> format, count |-> Len(items), rendered |-> items]

\* build_favorites_webhook_message: the builder of the platform, the generic one
\* for a platform it does not know
build_favorites_webhook_message(items, platform) ==
    CASE platform \in {"feishu", "feishu-card"} -> build_feishu_favorites_message("feishu", items)
      [] platform = "feishu-flow" -> build_list_message("feishu-flow", items)
      [] platform = "wecom" -> build_list_message("wecom", items)
      [] platform = "dingtalk" -> build_list_message("dingtalk", items)
      [] OTHER -> build_list_message("generic", items)

\* what a POST ends in: no response (timeout, connection failure), or a status
\* and a body. A body is text that is no JSON, a JSON list, or a JSON object that
\* may carry the member "code" (Feishu) or the member "errcode" (WeCom, DingTalk)
Bodies ==
    {[kind |-> "text", code |-> <<>>, errcode |-> <<>>],
     [kind |-> "list", code |-> <<>>, errcode |-> <<>>],
     [kind |-> "dict", code |-> <<>>, errcode |-> <<>>],
     [kind |-> "dict", code |-> <<0>>, errcode |-> <<>>],
     [kind |-> "dict", code |-> <<19001>>, errcode |-> <<>>],
     [kind |-> "dict", code |-> <<>>, errcode |-> <<0>>],
     [kind |-> "dict", code |-> <<>>, errcode |-> <<93000>>]}

NoBody == [kind |-> "text", code |-> <<>>, errcode |-> <<>>]

Responses ==
    [fault : {"none"}, status : {200}, body : Bodies]
    \cup [fault : {"none"}, status : {404, 500}, body : {NoBody}]
    \cup [fault : {"timeout", "connect"}, status : {0}, body : {NoBody}]

\* response.raise_for_status() raises
raise_for_status(response) == response.status \notin 200..299

\* resp_data.get(key) is truthy
Truthy(member) == member # <<>> /\ member[1] # 0

\* the test of the response body: response.json() or .get raising is passed over
\* by the bare except, else the member "code" decides
ReportsError(body) ==
    body.kind = "dict" /\ Truthy(body.code) /\ body.code[1] # 0

\* send_webhook_message's return value for the outcome of its POST
send_webhook_message(response) ==
    IF response.fault # "none" THEN FALSE
    ELSE IF raise_for_status(response) THEN FALSE
    ELSE ~ReportsError(response.body)

(* -------------------------- the push job body ------------------------- *)

\* select(Article).where(Article.is_favorite == True), as a list
Favorites == SortedSeq({i \in DOMAIN articles : articles[i].is_favorite})

Filtered == SortedSeq({i \in DOMAIN articles : articles[i].is_filtered})

\* a block that builds and sends a message for an empty selection too
PushAlways(kind, selection, config, response) ==
    <<[kind |-> kind,
       message |-> build_favorites_webhook_message(selection, config.platform),
       response |-> response,
       success |-> send_webhook_message(response)]>>

\* one block of webhook_push_task: nothing for an empty selection, else the
\* message is built and sent
PushBlock(kind, selection, config, response) ==
    IF selection = <<>> THEN <<>>
    ELSE <<[kind |-> kind,
            message |-> build_favorites_webhook_message(selection, config.platform),
            response |-> response,
            success |-> send_webhook_message(response)]>>

RECURSIVE Pushed(_)
Pushed(sends) ==
    IF sends = <<>> THEN 0
    ELSE (IF sends[1].success THEN sends[1].message.count ELSE 0)
         + Pushed(Tail(sends))

\* webhook_push_task, the body of job webhook_push, with the outcomes of the POST
\* for the favorites and of the POST for the filtered articles
webhook_push_task(for_favorites, for_filtered) ==
    /\ webhook_ret' =
         IF webhook_configs = <<>> \/ ~webhook_configs[1].schedule_enabled
         THEN [op |-> "webhook_push_task", outcome |-> "schedule off", sends |-> <<>>,
               pushed |-> 0]
         ELSE IF ~webhook_configs[1].enabled \/ webhook_configs[1].url = NoUrl
         THEN [op |-> "webhook_push_task", outcome |-> "webhook off", sends |-> <<>>,
               pushed |-> 0]
         ELSE LET config == webhook_configs[1]
                  first == IF config.push_favorites
                           THEN PushBlock("favorites", Favorites, config, for_favorites)
                           ELSE <<>>
                  second == IF config.push_filtered
                            THEN PushBlock("filtered", Filtered, config, for_filtered)
                            ELSE <<>>
              IN  [op |-> "webhook_push_task", outcome |-> "pushed",
                   sends |-> first \o second, pushed |-> Pushed(first \o second)]
    /\ UNCHANGED <<articles, sources, keywords, hash_order, ai_client, ai_settings_row,
                   filter_pass, webhook_configs,
                   webhook_jobs, call, task, sum_task, schedVars, filter_ret, nstarted, nsum>>

(* ----------------------- the connectivity test ------------------------ *)

\* what get_db() returns: get_db is an async def with a yield
get_db == "async_generator"

\* next(obj) raises TypeError: an async generator is not an iterator
NextRaisesTypeError(obj) == obj = "async_generator"

\* send_webhook_notification on a given address: WebhookSendError for a timeout,
\* a failed connection or an error status, else True
send_webhook_notification(response) ==
    IF response.fault # "none" \/ raise_for_status(response)
    THEN [raised |-> "WebhookSendError", value |-> FALSE]
    ELSE [raised |-> "none", value |-> TRUE]

\* test_webhook_connection: the session is taken with next(get_db()) before the
\* try; then the row is read, and a test notification is sent when a webhook is
\* configured
test_webhook_connection(response) ==
    /\ webhook_ret' =
         IF NextRaisesTypeError(get_db)
         THEN [op |-> "test_webhook_connection", raised |-> "TypeError", success |-> FALSE,
               message |-> ""]
         ELSE IF \/ webhook_configs = <<>>
                 \/ ~webhook_configs[1].enabled
                 \/ webhook_configs[1].url = NoUrl
         THEN [op |-> "test_webhook_connection", raised |-> "none", success |-> FALSE,
               message |-> "not configured"]
         ELSE [op |-> "test_webhook_connection", raised |-> "none",
               success |-> send_webhook_notification(response).value,
               message |-> IF send_webhook_notification(response).raised # "none"
                           THEN send_webhook_notification(response).raised
                           ELSE "sent"]
    /\ UNCHANGED <<articles, sources, keywords, hash_order, ai_client, ai_settings_row,
                   filter_pass, webhook_configs,
                   webhook_jobs, call, task, sum_task, schedVars, filter_ret, nstarted, nsum>>

(* ----------------------- library functions called --------------------- *)

(* ----------------------- the summary of a response -------------------- *)

Blanks(n) == [k \in 1..n |-> " "]

Ellipsis == <<".", ".", ".">>

\* a response text: blanks, n characters that all differ, blanks
ResponseText(lead, n, trail) == Blanks(lead) \o [k \in 1..n |-> ToString(k)] \o Blanks(trail)

ResponseTexts ==
    {ResponseText(lead, n, trail) : lead \in 0..1, n \in 0..MaxResponseLen, trail \in 0..1}

RECURSIVE lstrip(_)
lstrip(text) == IF text # <<>> /\ Head(text) = " " THEN lstrip(Tail(text)) ELSE text

RECURSIVE rstrip(_)
rstrip(text) ==
    IF text # <<>> /\ text[Len(text)] = " " THEN rstrip(SubSeq(text, 1, Len(text) - 1))
    ELSE text

\* str.strip()
strip_text(text) == rstrip(lstrip(text))

\* ai_settings.max_summary_length or settings.MAX_SUMMARY_LENGTH or 100
max_length(configured) ==
    IF configured # 0 THEN configured ELSE DEFAULT_MAX_SUMMARY_LENGTH

\* a cut at the threshold instead of at max_length
summary_cut_at_slack(response, configured) ==
    LET summary == strip_text(response)
    IN  IF Len(summary) > max_length(configured) + SUMMARY_SLACK
        THEN SubSeq(summary, 1, max_length(configured) + SUMMARY_SLACK) \o Ellipsis
        ELSE summary

\* summarize_article_async from the response on: the summary it returns, which
\* its callers store when it is not empty
summarize_article_async(response, configured) ==
    LET summary == strip_text(response)
    IN  IF Len(summary) > max_length(configured) + SUMMARY_SLACK
        THEN SubSeq(summary, 1, max_length(configured)) \o Ellipsis
        ELSE summary

SeqsUpTo(S, n) == UNION {[1..k -> S] : k \in 0..n}

\* lists of distinct articles handed to a builder, by their number
ItemLists == {[i \in 1..n |-> i] : n \in 0..MaxItems}

\* articles as filter_articles reads them: the words of title, description and
\* content, a missing field having none
ItemTexts ==
    {[title |-> {"ai"}, description |-> {}, content |-> {}],
     [title |-> {"main"}, description |-> {}, content |-> {"ai", "news"}],
     [title |-> {}, description |-> {"main"}, content |-> {}],
     [title |-> {}, description |-> {}, content |-> {}]}

KeywordLists == {<<>>, <<"ai">>, <<"news", "ai">>}

\* raw keyword lists, some with a keyword twice or in two spellings
RawKeywordLists ==
    KeywordLists \cup {<<"ai", "ai">>, <<"AI", "ai">>, <<"news", "AI", "news">>, <<"x", "x">>}

CharTexts == SeqsUpTo({"a", "b"}, MaxTextLen)

PendingCalls ==
    [fn : {"send_webhook_message"}, arg : Responses]
    \cup [fn : {"build_favorites_webhook_message"},
          arg : [items : ItemLists, platform : Platforms \cup {"slack"}]]
    \cup [fn : {"filter_articles"},
          arg : [keywords : KeywordLists, items : SeqsUpTo(ItemTexts, MaxBatch)]]
    \cup [fn : {"truncate_text"}, arg : [text : CharTexts, max_chars : 0..MaxTextLen + 1]]
    \cup [fn : {"matches"},
          arg : [keywords : RawKeywordLists, text : SUBSET {"ai", "news", "main"}]]
    \cup [fn : {"summarize_article_async"},
          arg : [response : ResponseTexts, max_summary_length : 0..MaxSummaryLength]]

Returns(value) ==
    /\ call' = [fn |-> call.fn, arg |-> call.arg, ret |-> value]
    /\ UNCHANGED <<articles, sources, keywords, hash_order, ai_client, ai_settings_row,
                   filter_pass, webhook_configs,
                   webhook_jobs, webhook_ret, task, sum_task, schedVars, filter_ret,
                   nstarted, nsum>>

Pending(fn) == call.fn = fn /\ "ret" \notin DOMAIN call

call_send_webhook_message ==
    /\ Pending("send_webhook_message")
    /\ Returns(send_webhook_message(call.arg))

call_build_favorites_webhook_message ==
    /\ Pending("build_favorites_webhook_message")
    /\ Returns(build_favorites_webhook_message(call.arg.items, call.arg.platform))

call_filter_articles ==
    /\ Pending("filter_articles")
    /\ Returns(filter_articles(call.arg.keywords, call.arg.items))

call_truncate_text ==
    /\ Pending("truncate_text")
    /\ Returns(truncate_text(call.arg.text, call.arg.max_chars))

\* KeywordFilter(keywords).matches(text): the tuple, or the exception it raises
call_matches ==
    /\ Pending("matches")
    /\ Returns(IF IndexError(call.arg.keywords, call.arg.text)
               THEN [raised |-> "IndexError"]
               ELSE matches(call.arg.keywords, call.arg.text))

call_summarize_article_async ==
    /\ Pending("summarize_article_async")
    /\ Returns(summarize_article_async(call.arg.response, call.arg.max_summary_length))

(* --------------------------- specifications --------------------------- *)

OrdersOf(S) ==
    {f \in [1..Cardinality(S) -> S] : \A i, j \in 1..Cardinality(S) : f[i] = f[j] => i = j}

InitStore ==
    /\ articles = <<>>
    /\ keywords = <<[keyword |-> "ai", enabled |-> TRUE, match_count |-> 0]>>
    /\ hash_order \in OrdersOf({keywords[r].keyword : r \in DOMAIN keywords})
    /\ ai_client = "configured"
    /\ InitWebhook
    /\ call = NoCall
    /\ ai_settings_row = TRUE
    /\ filter_pass = IdlePass
    /\ task = [b \in FetchSlots |-> IdleTask]
    /\ sum_task = [i \in SumSlots |-> IdleSum]
    /\ is_running = FALSE
    /\ jobs = {}
    /\ last_trigger = [job |-> "none", outcome |-> "none"]
    /\ clock = 0
    /\ last_call = [op |-> "none", at |-> 0]
    /\ filter_ret = <<>>
    /\ nstarted = 0
    /\ nsum = 0

Init ==
    /\ InitStore
    /\ sources = [s \in Sources |-> [enabled |-> TRUE, fetch_error_count |-> 0, last_fetched |-> 0]]

FetchBody(b, outcomes) ==
    \/ \E s \in Sources, o \in outcomes : fetch_rss_feed(b, s, o)
    \/ gather(b)
    \/ process_result(b)
    \/ save_articles_item(b)
    \/ save_articles_commit(b)
    \/ mark_fetched(b)
    \/ filter_step(b)

\* no task body is in progress
Quiescent ==
    /\ \A b \in FetchSlots : task[b].pc \in {"idle", "done"}
    /\ \A i \in SumSlots : sum_task[i].pc \in {"idle", "done"}

\* the pipeline driven one request at a time: a fetch run by the route, keyword
\* toggles and filter passes between the runs
SeqNext(outcomes) ==
    \/ trigger_fetch(1)
    \/ FetchBody(1, outcomes)
    \/ Quiescent /\ \E r \in DOMAIN keywords : toggle_keyword(r)
    \/ Quiescent /\ apply_keyword_filter

Next == SeqNext(Outcomes)

Spec == Init /\ [][Next]_vars

\* the same pipeline served documents of at most one entry
SingleEntryOutcomes == {o \in Outcomes : Len(o.items) <= 1}

NextSingle == SeqNext(SingleEntryOutcomes)

SpecSingle == Init /\ [][NextSingle]_vars

\* the scheduler running next to the route: one source enabled, documents of at
\* most one entry, task bodies interleaved step by step
InitSched ==
    /\ InitStore
    /\ sources = [s \in Sources |->
                    [enabled |-> (s = 1), fetch_error_count |-> 0, last_fetched |-> 0]]

SchedOutcomes ==
    {o \in SingleEntryOutcomes : o.kind = "feed" /\ \A i \in DOMAIN o.items : o.items[i] = "g1"}

SummaryBody(j) ==
    \E ok \in SUBSET DOMAIN articles : summarize_articles_batch(j, ok)

NextSched ==
    \/ start
    \/ \E id \in {"fetch_rss", "ai_summary"} : fire_job(id)
    \/ \E id \in {"fetch_rss", "ai_summary"} : run_now(id)
    \/ FreeFetchSlots # {} /\ trigger_fetch(Lowest(FreeFetchSlots))
    \/ \E b \in FetchSlots : FetchBody(b, SchedOutcomes)
    \/ \E j \in SumSlots : SummaryBody(j)

SpecSched == InitSched /\ [][NextSched]_vars

\* the pipeline with two keyword rows, "ai" and "news", and a summary task run
\* between the fetch runs; the sources answer with documents of at most one entry
InitFilter ==
    /\ articles = <<>>
    /\ keywords = <<[keyword |-> "ai", enabled |-> TRUE, match_count |-> 0],
                    [keyword |-> "news", enabled |-> TRUE, match_count |-> 0]>>
    /\ hash_order \in OrdersOf({keywords[r].keyword : r \in DOMAIN keywords})
    /\ ai_client = "configured"
    /\ InitWebhook
    /\ call = NoCall
    /\ ai_settings_row = TRUE
    /\ filter_pass = IdlePass
    /\ sources = [s \in Sources |->
                    [enabled |-> (s = 1), fetch_error_count |-> 0, last_fetched |-> 0]]
    /\ task = [b \in FetchSlots |-> IdleTask]
    /\ sum_task = [i \in SumSlots |-> IdleSum]
    /\ is_running = FALSE
    /\ jobs = {}
    /\ last_trigger = [job |-> "none", outcome |-> "none"]
    /\ clock = 0
    /\ last_call = [op |-> "none", at |-> 0]
    /\ filter_ret = <<>>
    /\ nstarted = 0
    /\ nsum = 0

FilterOutcomes == {o \in SingleEntryOutcomes : o.kind \in {"feed", "bozo"}}

NextFilter ==
    \/ SeqNext(FilterOutcomes)
    \/ Quiescent /\ ai_summary_task_begin(1, "run_now") /\ UNCHANGED schedVars
    \/ SummaryBody(1)

SpecFilter == InitFilter /\ [][NextFilter]_vars

(* --------------- a filter pass over stored rows, stepwise -------------- *)

\* three unfiltered rows of one source, two enabled keywords; passes are called
\* with and without article_ids, and a keyword may be toggled at any time
InitPass ==
    /\ articles \in {[i \in 1..MaxRows |-> NewArticle(1, g[i])] :
                       g \in [1..MaxRows -> Guids]}
    /\ keywords = <<[keyword |-> "ai", enabled |-> TRUE, match_count |-> 0],
                    [keyword |-> "news", enabled |-> TRUE, match_count |-> 0]>>
    /\ hash_order \in OrdersOf({keywords[r].keyword : r \in DOMAIN keywords})
    /\ ai_client = "configured"
    /\ InitWebhook
    /\ call = NoCall
    /\ ai_settings_row = TRUE
    /\ filter_pass = IdlePass
    /\ sources = [s \in Sources |->
                    [enabled |-> (s = 1), fetch_error_count |-> 0, last_fetched |-> 0]]
    /\ task = [b \in FetchSlots |-> IdleTask]
    /\ sum_task = [i \in SumSlots |-> IdleSum]
    /\ is_running = FALSE
    /\ jobs = {}
    /\ last_trigger = [job |-> "none", outcome |-> "none"]
    /\ clock = 0
    /\ last_call = [op |-> "none", at |-> 0]
    /\ filter_ret = <<>>
    /\ nstarted = 0
    /\ nsum = 0

\* the article_ids of a call: None (the default) or a list of row ids
ArticleIdArgs ==
    {[given |-> FALSE, ids |-> {}]} \cup [given : {TRUE}, ids : SUBSET (1..MaxRows)]

NextPass ==
    \/ \E arg \in ArticleIdArgs : filter_articles_by_keywords_enter(arg)
    \/ update_keyword_match_count
    \/ filter_articles_by_keywords_commit
    \/ \E r \in DOMAIN keywords : toggle_keyword(r)

SpecPass == InitPass /\ [][NextPass]_vars

\* the filter step of a fetch firing, statement by statement on its own session,
\* and POST /api/keywords/apply-filter handled on another session while the
\* firing waits for the database
NextInterleaved ==
    \/ filter_articles_by_keywords_enter([given |-> FALSE, ids |-> {}])
    \/ update_keyword_match_count
    \/ filter_articles_by_keywords_commit
    \/ apply_keyword_filter

SpecInterleaved == InitPass /\ [][NextInterleaved]_vars

(* ---------------- fetch firings against failing sources --------------- *)

\* the scheduler's fetch job alone: one enabled source, which answers every
\* attempt with a document of at most one entry or with a failure
NextFiring ==
    \/ start
    \/ fire_job("fetch_rss")
    \/ \E b \in FetchSlots : FetchBody(b, SingleEntryOutcomes)

SpecFiring == InitSched /\ [][NextFiring]_vars

\* the event loop runs every step of a started firing: an attempt ends with a
\* response or with its timeout, the waits between the attempts end, the
\* statements on the session return
SpecFiringLive == SpecFiring /\ \A b \in FetchSlots : WF_vars(FetchBody(b, SingleEntryOutcomes))

(* ------------------ summary firings over a backlog -------------------- *)

\* what a stored article is to the summarizer: content above the minimum
\* length, content of the minimum length, no content, filtered, summarized
RowKinds == {"long", "short", "empty", "filtered", "summarized"}

BacklogRow(i, kind) ==
    [source_id |-> i,
     guid |-> IF kind = "short" THEN "g2" ELSE IF kind = "empty" THEN "g3" ELSE "g1",
     is_filtered |-> (kind = "filtered"), has_summary |-> (kind = "summarized"),
     summary |-> IF kind = "summarized" THEN "summary" ELSE "",
     is_favorite |-> FALSE]

\* a store of n rows, one per source: a rows of one kind, then rows of another
InitBacklog ==
    /\ articles \in {[i \in 1..n |-> BacklogRow(i, IF i <= a THEN x ELSE y)] :
                       n \in 0..MaxStore, a \in 0..MaxStore, x \in RowKinds, y \in RowKinds}
    /\ keywords = <<[keyword |-> "ai", enabled |-> FALSE, match_count |-> 0]>>
    /\ hash_order \in OrdersOf({keywords[r].keyword : r \in DOMAIN keywords})
    /\ ai_client = "configured"
    /\ InitWebhook
    /\ call = NoCall
    /\ ai_settings_row = TRUE
    /\ filter_pass = IdlePass
    /\ sources = [s \in Sources |-> [enabled |-> TRUE, fetch_error_count |-> 0, last_fetched |-> 1]]
    /\ task = [b \in FetchSlots |-> IdleTask]
    /\ sum_task = [i \in SumSlots |-> IdleSum]
    /\ is_running = FALSE
    /\ jobs = {}
    /\ last_trigger = [job |-> "none", outcome |-> "none"]
    /\ clock = 0
    /\ last_call = [op |-> "none", at |-> 0]
    /\ filter_ret = <<>>
    /\ nstarted = 0
    /\ nsum = 0

\* summarize_articles_batch against an endpoint that answers every call with a
\* summary
summarize_all(j) == summarize_articles_batch(j, ArticlesToSummarize(sum_task[j].objects))

\* the scheduler is started and the ai_summary trigger fires; every AI call
\* succeeds
NextBacklog ==
    \/ start
    \/ fire_job("ai_summary")
    \/ \E j \in SumSlots : summarize_all(j)

SpecBacklog == InitBacklog /\ [][NextBacklog]_vars

\* the executor runs every firing it has started to its end, and the trigger
\* keeps firing
SpecBacklogLive ==
    /\ SpecBacklog
    /\ WF_vars(start)
    /\ WF_vars(fire_job("ai_summary"))
    /\ \A j \in SumSlots : WF_vars(summarize_all(j))

\* summarize_articles_batch called on lists of stored articles, with and without
\* a configured client, under semaphores of every size up to MaxConcurrent
InitSum ==
    /\ articles \in {<<[source_id |-> 1, guid |-> "g1", is_filtered |-> FALSE, has_summary |-> h[1],
                        summary |-> IF h[1] THEN "summary" ELSE "", is_favorite |-> FALSE],
                       [source_id |-> 2, guid |-> "g1", is_filtered |-> FALSE, has_summary |-> h[2],
                        summary |-> IF h[2] THEN "summary" ELSE "", is_favorite |-> FALSE],
                       [source_id |-> 1, guid |-> "g2", is_filtered |-> FALSE, has_summary |-> h[3],
                        summary |-> IF h[3] THEN "summary" ELSE "", is_favorite |-> FALSE]>> :
                     h \in [1..3 -> BOOLEAN]}
    /\ keywords = <<[keyword |-> "ai", enabled |-> FALSE, match_count |-> 0]>>
    /\ hash_order \in OrdersOf({keywords[r].keyword : r \in DOMAIN keywords})
    /\ ai_client \in {"configured", "none"}
    /\ InitWebhook
    /\ call = NoCall
    /\ ai_settings_row \in BOOLEAN
    /\ filter_pass = IdlePass
    /\ sources = [s \in Sources |-> [enabled |-> TRUE, fetch_error_count |-> 0, last_fetched |-> 1]]
    /\ task = [b \in FetchSlots |-> IdleTask]
    /\ sum_task = [i \in SumSlots |-> IdleSum]
    /\ is_running = FALSE
    /\ jobs = {}
    /\ last_trigger = [job |-> "none", outcome |-> "none"]
    /\ clock = 0
    /\ last_call = [op |-> "none", at |-> 0]
    /\ filter_ret = <<>>
    /\ nstarted = 0
    /\ nsum = 0

SummarizeSteps(j) ==
    \/ summarize_articles_batch_enter(j)
    \/ \E i \in DOMAIN articles : summarize_with_limit_acquire(j, i)
    \/ \E i \in DOMAIN articles, out \in AIOutcomes : summarize_with_limit_return(j, i, out)
    \/ summarize_articles_batch_commit(j)

NextSum ==
    \/ \E batch \in SUBSET DOMAIN articles, L \in 1..MaxConcurrent :
          call_summarize_articles_batch(1, batch, L)
    \/ ai_summary_task_begin(1, "run_now") /\ UNCHANGED schedVars
    \/ SummarizeSteps(1)

SpecSum == InitSum /\ [][NextSum]_vars

\* the batch and POST /api/articles/{id}/summarize on the same stored articles
NextSummarizer ==
    \/ NextSum
    \/ \E i \in DOMAIN articles, out \in AIOutcomes : summarize_single_article(i, out)

SpecSummarizer == InitSum /\ [][NextSummarizer]_vars

\* the scheduler started, stopped and asked to run tasks while time passes; one
\* source enabled, which answers with the one-entry document <<g1>>, and one task
\* body running at a time
LifeOutcomes == {o \in SchedOutcomes : Len(o.items) = 1}

NextLife ==
    \/ start
    \/ stop
    \/ tick
    \/ (Quiescent \/ RunningFetch("job") # {}) /\ fire_job("fetch_rss")
    \/ Quiescent /\ fire_job("ai_summary")
    \/ Quiescent /\ \E id \in {"fetch_rss", "ai_summary", "unknown"} : run_now(id)
    \/ \E b \in FetchSlots : FetchBody(b, LifeOutcomes)
    \/ \E j \in SumSlots : SummaryBody(j)
    \/ \E b \in FetchSlots, exc \in Faults : fetch_rss_task_raise(b, exc)
    \/ \E j \in SumSlots, exc \in Faults : ai_summary_task_raise(j, exc)

SpecLife == InitSched /\ [][NextLife]_vars

\* the request bodies posted to the configuration route: the schedule fields in
\* every combination, or the delivery fields of a blank or of a WeCom address
NotGiven == [f \in DOMAIN DefaultWebhookConfig |-> <<>>]

ScheduleBodies ==
    {b \in WebhookConfigUpdate :
        \A f \in {"enabled", "url", "platform", "push_favorites", "push_filtered"} : b[f] = <<>>}

DeliveryBodies ==
    {[NotGiven EXCEPT !.enabled = <<TRUE>>, !.url = <<u>>, !.platform = <<"wecom">>,
                      !.push_filtered = <<TRUE>>] : u \in Urls}

\* the webhook configuration posted again and again while time passes
NextWebhook ==
    \/ \E settings \in ScheduleBodies \cup DeliveryBodies : update_webhook_config(settings)
    \/ tick

SpecWebhook == InitSched /\ [][NextWebhook]_vars

\* the push job body and the connectivity test run on every stored configuration
\* of the delivery fields, with and without a favorite and a filtered article
PushConfigs ==
    {[DefaultWebhookConfig EXCEPT !.enabled = c.enabled, !.url = c.url,
                                  !.platform = c.platform,
                                  !.schedule_enabled = c.schedule_enabled,
                                  !.push_favorites = c.push_favorites,
                                  !.push_filtered = c.push_filtered] :
        c \in [enabled : BOOLEAN, url : {NoUrl, "https://hook"}, platform : Platforms,
               schedule_enabled : BOOLEAN, push_favorites : BOOLEAN,
               push_filtered : BOOLEAN]}

InitPush ==
    /\ \E fav, filt \in BOOLEAN :
         /\ articles = <<[NewArticle(1, "g2") EXCEPT !.is_favorite = fav],
                         [NewArticle(1, "g1") EXCEPT !.is_filtered = filt]>>
         /\ keywords = <<[keyword |-> "ai", enabled |-> TRUE,
                          match_count |-> IF filt THEN 1 ELSE 0]>>
    /\ hash_order \in OrdersOf({keywords[r].keyword : r \in DOMAIN keywords})
    /\ ai_client = "configured"
    /\ webhook_configs \in {<<>>} \cup {<<c>> : c \in PushConfigs}
    /\ webhook_jobs = update_webhook_schedule(<<>>, webhook_configs, 0)
    /\ webhook_ret = [op |-> "none"]
    /\ call = NoCall
    /\ ai_settings_row = TRUE
    /\ filter_pass = IdlePass
    /\ sources = [s \in Sources |->
                    [enabled |-> (s = 1), fetch_error_count |-> 0, last_fetched |-> 1]]
    /\ task = [b \in FetchSlots |-> IdleTask]
    /\ sum_task = [i \in SumSlots |-> IdleSum]
    /\ is_running = FALSE
    /\ jobs = {}
    /\ last_trigger = [job |-> "none", outcome |-> "none"]
    /\ clock = 0
    /\ last_call = [op |-> "none", at |-> 0]
    /\ filter_ret = <<>>
    /\ nstarted = 0
    /\ nsum = 0

NextPush ==
    \/ \E for_favorites, for_filtered \in Responses :
          webhook_push_task(for_favorites, for_filtered)
    \/ \E response \in Responses : test_webhook_connection(response)

SpecPush == InitPush /\ [][NextPush]_vars

\* one library function applied to one argument
InitCalls ==
    /\ articles = <<>>
    /\ keywords = <<[keyword |-> "ai", enabled |-> TRUE, match_count |-> 0],
                    [keyword |-> "news", enabled |-> TRUE, match_count |-> 0]>>
    /\ hash_order \in OrdersOf({keywords[r].keyword : r \in DOMAIN keywords})
    /\ ai_client = "configured"
    /\ InitWebhook
    /\ call \in PendingCalls
    /\ ai_settings_row = TRUE
    /\ filter_pass = IdlePass
    /\ sources = [s \in Sources |->
                    [enabled |-> (s = 1), fetch_error_count |-> 0, last_fetched |-> 0]]
    /\ task = [b \in FetchSlots |-> IdleTask]
    /\ sum_task = [i \in SumSlots |-> IdleSum]
    /\ is_running = FALSE
    /\ jobs = {}
    /\ last_trigger = [job |-> "none", outcome |-> "none"]
    /\ clock = 0
    /\ last_call = [op |-> "none", at |-> 0]
    /\ filter_ret = <<>>
    /\ nstarted = 0
    /\ nsum = 0

NextCalls ==
    \/ call_send_webhook_message
    \/ call_build_favorites_webhook_message
    \/ call_filter_articles
    \/ call_truncate_text
    \/ call_summarize_article_async
    \/ call_matches

SpecCalls == InitCalls /\ [][NextCalls]_vars

(* ------------------------------- claims ------------------------------- *)

NoKeywordEnabled == \A r \in DOMAIN keywords : ~keywords[r].enabled

\* the source a task body is persisting, and the entries fetched for it
SavingSource(b) == SourceAt(task[b].srcs, task[b].idx)

SavingItems(b) == task[b].fetch_results[SavingSource(b)].items

\* C1: after any sequence of save_articles calls the articles table holds at most
\* one row for each (source_id, guid)
C1_AtMostOneRowPerKey ==
    \A s \in Sources, g \in Guids : Cardinality(RowsWithKey(s, g)) <= 1

\* C2: a fetch-and-save run that fetched exactly what the run before it fetched
\* leaves every source's row count as that run left it, and ends without error
C2_IdempotentIngestion ==
    \A b \in FetchSlots :
        (/\ task[b].pc = "done"
         /\ task[b].prev.status # "none"
         /\ task[b].fetch_results = task[b].prev.fetched)
        => /\ \A s \in Sources : CountOf(s) = task[b].prev.count[s]
           /\ task[b].ret.status = "success"

\* C4: save_articles inserts exactly the rows it counted, each with
\* is_filtered = FALSE and has_summary = FALSE, and an entry whose natural key is
\* already stored is skipped: no error, no row added, nothing counted
C4_SaveCountsNewRows ==
    [][\A b \in FetchSlots :
         /\ (task[b].pc = "save" /\ task'[b].pc = "mark")
            => /\ Len(articles') = Len(articles) + task[b].saved_count
               /\ \A i \in (Len(articles) + 1)..Len(articles') :
                    /\ ~articles'[i].is_filtered
                    /\ ~articles'[i].has_summary
                    /\ articles'[i].source_id = SavingSource(b)
         /\ (/\ task[b].pc = "save"
             /\ task[b].k <= Len(SavingItems(b))
             /\ RowsWithKey(SavingSource(b), SavingItems(b)[task[b].k]) # {}
             /\ task'[b] # task[b])
            => /\ task'[b].pc = "save"
               /\ task'[b].k = task[b].k + 1
               /\ task'[b].pending = task[b].pending
               /\ task'[b].saved_count = task[b].saved_count]_vars

\* C5: when a fetch over the enabled sources has ended, a source whose fetch
\* succeeded has fetch_error_count 0, a source whose fetch failed has the count it
\* was loaded with plus 1, and a source that is not enabled keeps its count
C5_FailureCounter ==
    \A b \in FetchSlots :
        task[b].pc = "done" =>
            \A s \in Sources :
                /\ (s \in task[b].srcs /\ task[b].fetch_results[s].kind = "ok")
                   => sources[s].fetch_error_count = 0
                /\ (s \in task[b].srcs /\ task[b].fetch_results[s].kind = "err")
                   => sources[s].fetch_error_count = task[b].cnt[s] + 1
                /\ s \notin task[b].srcs
                   => sources[s].fetch_error_count = task[b].cnt[s]

\* C6: an attempt that ended in an HTTP error status or in a parse failure is
\* followed by no further attempt: the fetch of that source has failed
C6_NoRetryOnStatusOrParse ==
    \A b \in FetchSlots, s \in Sources :
        (/\ task[b].pc = "fetch"
         /\ s \in task[b].srcs
         /\ task[b].last_exc[s].cause \in {"http_status", "bozo"})
        => task[b].fetch_results[s].kind = "err"

\* an attempt of source s is made in this step
AttemptStep(b, s) ==
    /\ task[b].pc = "fetch"
    /\ task[b].fetch_results[s].kind = "pending"
    /\ \/ task'[b].att[s] # task[b].att[s]
       \/ task'[b].fetch_results[s] # task[b].fetch_results[s]

C8_OneOutcomePerSource ==
    \A b \in FetchSlots :
        /\ task[b].pc \in {"process", "save", "mark", "filter", "done"}
           => \A s \in task[b].srcs : task[b].fetch_results[s].kind # "pending"
        /\ task[b].pc = "done"
           => /\ DOMAIN task[b].results = task[b].srcs
              /\ \A s \in task[b].srcs :
                    IF task[b].fetch_results[s].kind = "err"
                    THEN task[b].results[s] = -1
                    ELSE task[b].results[s] >= 0

\* C3: a commit of save_articles adds no row whose (source_id, guid) the table
\* already holds, however the steps of two fetch bodies over a source interleave
C3_StoreRejectsSecondInsert ==
    [][\A b \in FetchSlots :
         (task[b].pc = "save" /\ task'[b].pc = "mark")
         => \A i \in (Len(articles) + 1)..Len(articles') :
               RowsWithKey(articles'[i].source_id, articles'[i].guid) = {}]_vars

\* a firing of the job starts in this step
FetchFiringStarts ==
    \E b \in FetchSlots :
        /\ task[b].pc \in {"idle", "done"}
        /\ task'[b].pc \notin {"idle", "done"}
        /\ task'[b].origin = "job"

SummaryFiringStarts ==
    \E j \in SumSlots :
        /\ sum_task[j].pc \in {"idle", "done"}
        /\ sum_task'[j].pc \notin {"idle", "done"}
        /\ sum_task'[j].origin = "job"

\* C9: at most 1 firing of the fetch job and at most 2 firings of the summary job
\* are running; a trigger that finds that many running starts nothing and leaves
\* nothing behind, and a firing starts only in the step of its own trigger
C9_MaxInstances ==
    /\ [](/\ Cardinality(RunningFetch("job")) <= 1
          /\ Cardinality(RunningSummary("job")) <= 2)
    /\ [][/\ (fire_job("fetch_rss") /\ Cardinality(RunningFetch("job")) = 1)
             => /\ task' = task
                /\ nstarted' = nstarted
                /\ last_trigger' = [job |-> "fetch_rss", outcome |-> "skipped"]
          /\ (fire_job("ai_summary") /\ Cardinality(RunningSummary("job")) = 2)
             => /\ sum_task' = sum_task
                /\ nsum' = nsum
                /\ last_trigger' = [job |-> "ai_summary", outcome |-> "skipped"]
          /\ FetchFiringStarts => fire_job("fetch_rss")
          /\ SummaryFiringStarts => fire_job("ai_summary")]_vars

C9_Witness ==
    /\ Cardinality(RunningFetch("job")) = 1
    /\ Cardinality(RunningSummary("job")) = 2
    /\ FreeSumSlots # {}
    /\ FreeFetchSlots # {}
    /\ last_trigger.outcome = "skipped"

\* a filter pass runs in this step: the filter step of a task body, or the route
FilterPassStep ==
    \/ \E b \in FetchSlots : task[b].pc = "filter" /\ task'[b].pc = "done"
    \/ apply_keyword_filter

\* C10: a filter pass made while no keyword row is enabled returns the empty list
\* and changes no is_filtered flag and no match_count
C10_NoKeywordNoChange ==
    [][(FilterPassStep /\ NoKeywordEnabled)
        => /\ filter_ret' = <<>>
           /\ articles' = articles
           /\ keywords' = keywords]_vars

C10_Witness ==
    /\ NoKeywordEnabled
    /\ filter_ret = <<>>
    /\ \E b \in FetchSlots : task[b].pc = "done" /\ task[b].ret.status = "success"
    /\ \E i \in DOMAIN articles :
          /\ ~articles[i].is_filtered
          /\ \E r \in DOMAIN keywords : keywords[r].keyword \in EntryWords(articles[i].guid)

\* the unfiltered rows a filter pass scans
Scanned == {i \in DOMAIN articles : ~articles[i].is_filtered}

\* the scanned rows whose text holds the keyword of row r
ScannedWith(r) == {i \in Scanned : keywords[r].keyword \in EntryWords(articles[i].guid)}

\* C11: a filter pass sets is_filtered on every scanned row whose text holds the
\* keyword of an enabled row, and raises the match_count of each enabled row by
\* the number of scanned rows whose text holds that row's keyword
C11_CountersFollowMatches ==
    [][FilterPassStep =>
        /\ \A i \in Scanned :
             (\E r \in DOMAIN keywords : keywords[r].enabled /\ i \in ScannedWith(r))
             => articles'[i].is_filtered
        /\ \A r \in DOMAIN keywords :
             keywords'[r].match_count =
                keywords[r].match_count
                + (IF keywords[r].enabled THEN Cardinality(ScannedWith(r)) ELSE 0)]_vars

\* the texts matches is asked about: the empty text and the texts of the entries
Texts == {{}} \cup {EntryWords(g) : g \in Guids}

\* C12: matches returns (FALSE, <<>>) for the empty text and for a matcher without
\* pattern; otherwise is_match tells whether a retained keyword's pattern matches
\* and matched lists the supplied keywords whose pattern matched, in the order
\* the patterns were registered
C12_MatchedKeywords ==
    \A words \in Texts :
        LET kws == load_keywords_from_db
            hits == SelectSeq(OriginalKeywords(kws), LAMBDA k : PatternSearch(k, words))
        IN IF words = {} \/ Len(OriginalKeywords(kws)) = 0
           THEN matches(kws, words) = [is_match |-> FALSE, matched |-> <<>>]
           ELSE matches(kws, words) = [is_match |-> Len(hits) > 0, matched |-> hits]

\* C13: no step of the pipeline lowers a match_count, and a match_count changes
\* only in a filter pass
C13_CountersOnlyGrow ==
    [][/\ DOMAIN keywords' = DOMAIN keywords
       /\ \A r \in DOMAIN keywords :
            /\ keywords'[r].match_count >= keywords[r].match_count
            /\ keywords'[r].match_count # keywords[r].match_count => FilterPassStep]_vars

C13_Witness ==
    /\ \E r \in DOMAIN keywords : keywords[r].match_count >= 2
    /\ \E i \in DOMAIN articles : articles[i].has_summary
    /\ \E b \in FetchSlots : task[b].pc = "done" /\ task[b].fno = 2

\* C14: with no AI client configured no summarize_with_limit task is ever started,
\* no article row changes, and every summarize_articles_batch call returns 0
C14_NoClientNoSummary ==
    /\ [](ai_client = "none" =>
            \A j \in SumSlots :
                /\ sum_task[j].pc # "gather"
                /\ sum_task[j].todo = {} /\ sum_task[j].inflight = {}
                /\ sum_task[j].results = <<>>
                /\ sum_task[j].success_count = 0)
    /\ [][ai_client = "none" =>
            /\ articles' = articles
            /\ \A j \in SumSlots :
                 sum_task[j].pc = "summarize" /\ sum_task'[j] # sum_task[j]
                 => sum_task'[j].pc = "done"]_vars

C14_Witness ==
    /\ ai_client = "none"
    /\ \E j \in SumSlots :
         /\ sum_task[j].pc = "done"
         /\ sum_task[j].origin = "direct"
         /\ \E i \in sum_task[j].batch :
              ~articles[i].has_summary /\ EntryContentLen(articles[i].guid) > 50

\* C15: a summarize_with_limit task is started only for an article of the batch
\* with has_summary = FALSE and content longer than 50 characters, the commit
\* changes only such rows, and the count returned is at most their number
C15_OnlyEligibleSummarized ==
    [][\A j \in SumSlots :
         LET eligible == {i \in sum_task[j].batch :
                            /\ ~articles[i].has_summary
                            /\ EntryContentLen(articles[i].guid) > 50}
         IN /\ sum_task'[j].inflight \ sum_task[j].inflight \subseteq eligible
            /\ (sum_task[j].pc \in {"summarize", "gather"} /\ sum_task'[j].pc = "done")
               => /\ \A i \in DOMAIN articles : articles'[i] # articles[i] => i \in eligible
                  /\ DOMAIN sum_task'[j].results \subseteq eligible
                  /\ sum_task'[j].success_count <= Cardinality(eligible)]_vars

C15_Witness ==
    \E j \in SumSlots :
        /\ sum_task[j].pc = "done"
        /\ sum_task[j].success_count = 1
        /\ \E i \in sum_task[j].batch :
             ~articles[i].has_summary /\ EntryContentLen(articles[i].guid) = 50
        /\ \E i \in sum_task[j].batch :
             articles[i].has_summary /\ i \notin DOMAIN sum_task[j].results

\* C16: the summarize_with_limit tasks of a call that are inside the semaphore,
\* where the AI endpoint is called, are never more than the call's max_concurrent
C16_InflightBounded ==
    \A j \in SumSlots : Cardinality(sum_task[j].inflight) <= sum_task[j].max_concurrent

C16_Witness ==
    \E j \in SumSlots :
        /\ sum_task[j].pc = "gather"
        /\ sum_task[j].max_concurrent = 1
        /\ Cardinality(sum_task[j].inflight) = 1
        /\ sum_task[j].todo # {}

\* C17: when the calls of a batch have ended, an article whose call failed with a
\* rate limit, a timeout or an API error keeps has_summary = FALSE, every eligible
\* article has had its call, every article whose call returned a summary has
\* has_summary = TRUE, and the count returned is the number of those articles
C17_FailuresAreSkipped ==
    [][\A j \in SumSlots :
         (sum_task[j].pc = "gather" /\ sum_task'[j].pc = "done")
         => LET res == sum_task[j].results
            IN /\ DOMAIN res = {i \in sum_task[j].batch :
                                  /\ ~articles[i].has_summary
                                  /\ EntryContentLen(articles[i].guid) > 50}
               /\ \A i \in DOMAIN res :
                    /\ res[i] \in {"rate_limit", "timeout", "api_error"}
                       => ~articles'[i].has_summary
                    /\ res[i] = "summary" => articles'[i].has_summary
               /\ sum_task'[j].success_count =
                    Cardinality({i \in DOMAIN res : res[i] = "summary"})]_vars

C17_Witness ==
    \E j \in SumSlots :
        /\ sum_task[j].pc = "done"
        /\ sum_task[j].success_count = 1
        /\ \E i \in DOMAIN sum_task[j].results :
             /\ sum_task[j].results[i] = "rate_limit"
             /\ ~articles[i].has_summary
        /\ \E i \in DOMAIN sum_task[j].results :
             /\ sum_task[j].results[i] = "summary"
             /\ articles[i].has_summary

\* C18: start on a running scheduler leaves the registered jobs, their triggers
\* and the running state as they are, and so does stop on a stopped scheduler,
\* which cancels nothing either
C18_StartStopIdempotent ==
    [][/\ (start /\ is_running) => (jobs' = jobs /\ is_running' = is_running)
       /\ (stop /\ ~is_running)
          => /\ jobs' = jobs /\ is_running' = is_running
             /\ task' = task /\ sum_task' = sum_task]_vars

C18_Witness ==
    /\ is_running
    /\ last_call.op = "start"
    /\ jobs # {}
    /\ \A job \in jobs : job.anchor < last_call.at

\* C19: run_now of a known task can be made whether or not the scheduler runs and
\* starts that task's body in the same step; run_now of any id leaves the jobs,
\* their triggers and the scheduler's state as they are, and for an unknown id
\* nothing else changes either
C19_RunNowFrame ==
    /\ [](/\ (FreeFetchSlots # {} /\ nstarted < MaxFirings) => ENABLED run_now("fetch_rss")
          /\ (FreeSumSlots # {} /\ nsum < MaxSumFirings) => ENABLED run_now("ai_summary"))
    /\ [][/\ \A id \in {"fetch_rss", "ai_summary", "unknown"} :
               run_now(id) => /\ jobs' = jobs /\ is_running' = is_running
                              /\ last_trigger' = last_trigger /\ clock' = clock
          /\ run_now("fetch_rss")
             => \E b \in FetchSlots : task'[b].origin = "run_now" /\ task'[b].fno = nstarted'
          /\ run_now("ai_summary") => nsum' = nsum + 1
          /\ run_now("unknown")
             => /\ task' = task /\ sum_task' = sum_task
                /\ articles' = articles /\ sources' = sources /\ keywords' = keywords]_vars

\* a fetch run made by run_now on a scheduler that was never started
C19_Witness ==
    /\ ~is_running
    /\ last_call.op = "none"
    /\ \E b \in FetchSlots : task[b].origin = "run_now" /\ task[b].pc = "save"

\* the trigger the push job of a configuration is to have: the time of day read
\* off the clock face, the day of the week counted from Monday = 0
C20_TimeOfDay(schedule_time) ==
    CASE schedule_time = <<"0", "9", ":", "0", "0">> -> [hour |-> 9, minute |-> 0]
      [] schedule_time = <<"9", ":", "0", "5">> -> [hour |-> 9, minute |-> 5]
      [] schedule_time = <<"2", "3", ":", "5", "9">> -> [hour |-> 23, minute |-> 59]

C20_Trigger(config, built_at) ==
    LET t == C20_TimeOfDay(config.schedule_time)
    IN  [kind |-> IF config.schedule_frequency = "hourly" THEN "interval" ELSE "cron",
         hours |-> IF config.schedule_frequency = "hourly" THEN <<1>> ELSE <<>>,
         start_date |-> IF config.schedule_frequency = "hourly" THEN <<built_at>> ELSE <<>>,
         day_of_week |-> IF config.schedule_frequency = "weekly"
                         THEN <<config.schedule_day_of_week - 1>> ELSE <<>>,
         day |-> IF config.schedule_frequency = "monthly"
                 THEN <<config.schedule_day_of_month>> ELSE <<>>,
         hour |-> IF config.schedule_frequency = "hourly" THEN <<>> ELSE <<t.hour>>,
         minute |-> IF config.schedule_frequency = "hourly" THEN <<>> ELSE <<t.minute>>]

\* C20: from an update of the webhook configuration on, the job list holds no
\* push job from before the update and at most one push job: one exactly when the
\* stored configuration has scheduling enabled with a known frequency, its trigger
\* the one built from the stored configuration at the time of the update
C20_PushJobRebuilt ==
    last_call.op = "update_webhook_config"
    => /\ Len(webhook_configs) = 1
       /\ Len(webhook_jobs) <= 1
       /\ webhook_jobs # <<>>
          <=> /\ webhook_configs[1].schedule_enabled
              /\ webhook_configs[1].schedule_frequency \in Frequencies
       /\ \A i \in DOMAIN webhook_jobs :
            /\ webhook_jobs[i].id = "webhook_push"
            /\ webhook_jobs[i].trigger = C20_Trigger(webhook_configs[1], last_call.at)

\* an hourly push job was removed by an update made later, which installed a
\* weekly push job for Sunday 23:59
C20_Witness ==
    /\ last_call.op = "update_webhook_config"
    /\ last_call.removed = 1
    /\ last_call.at > 0
    /\ Len(webhook_jobs) = 1
    /\ webhook_jobs[1].trigger.kind = "cron"
    /\ webhook_jobs[1].trigger.day_of_week = <<6>>
    /\ webhook_jobs[1].trigger.hour = <<23>>

SendsOf(kind) == {i \in DOMAIN webhook_ret.sends : webhook_ret.sends[i].kind = kind}

\* C21: a push firing makes no send when scheduling is off, the webhook is off or
\* the address is empty; else it makes one send for the favorites exactly when
\* push_favorites is on and a favorite exists, and one send for the filtered
\* articles exactly when push_filtered is on and a filtered article exists,
\* whatever the other send ended in
C21_SendsFollowToggles ==
    webhook_ret.op = "webhook_push_task"
    => IF \/ webhook_configs = <<>>
          \/ ~webhook_configs[1].schedule_enabled
          \/ ~webhook_configs[1].enabled
          \/ webhook_configs[1].url = NoUrl
       THEN webhook_ret.sends = <<>>
       ELSE /\ Cardinality(SendsOf("favorites")) =
                 IF /\ webhook_configs[1].push_favorites
                    /\ \E i \in DOMAIN articles : articles[i].is_favorite
                 THEN 1 ELSE 0
            /\ Cardinality(SendsOf("filtered")) =
                 IF /\ webhook_configs[1].push_filtered
                    /\ \E i \in DOMAIN articles : articles[i].is_filtered
                 THEN 1 ELSE 0

\* a firing whose send for the favorites failed and whose send for the filtered
\* articles was made and succeeded
C21_Witness ==
    /\ webhook_ret.op = "webhook_push_task"
    /\ Len(webhook_ret.sends) = 2
    /\ webhook_ret.sends[1].kind = "favorites" /\ ~webhook_ret.sends[1].success
    /\ webhook_ret.sends[2].kind = "filtered" /\ webhook_ret.sends[2].success

\* C23: the connectivity test made with no webhook row, a disabled webhook or an
\* empty address returns success = false with a message and raises nothing
C23_TestReturnsNotConfigured ==
    /\ webhook_ret.op = "test_webhook_connection"
    /\ \/ webhook_configs = <<>>
       \/ ~webhook_configs[1].enabled
       \/ webhook_configs[1].url = NoUrl
    => /\ webhook_ret.raised = "none"
       /\ ~webhook_ret.success
       /\ webhook_ret.message # ""

Returned(fn) == call.fn = fn /\ "ret" \in DOMAIN call

\* a response body that reports an error: a JSON object with a non-zero error
\* code, under the member name Feishu uses or the one WeCom and DingTalk use
C24_CarriesErrorCode(body) ==
    /\ body.kind = "dict"
    /\ \/ body.code # <<>> /\ body.code[1] # 0
       \/ body.errcode # <<>> /\ body.errcode[1] # 0

\* C24: send_webhook_message returns true only for a POST that got a success
\* status and a body without error code; it returns false for a timeout, a failed
\* connection, an error status and a 200 response whose body reports a non-zero
\* error code
C24_SendReportsFailure ==
    Returned("send_webhook_message")
    => /\ call.ret \in BOOLEAN
       /\ call.ret => /\ call.arg.fault = "none"
                      /\ call.arg.status = 200
                      /\ ~C24_CarriesErrorCode(call.arg.body)
       /\ (\/ call.arg.fault # "none"
           \/ call.arg.status # 200
           \/ C24_CarriesErrorCode(call.arg.body)) => ~call.ret

\* C25: the message built for any platform and any list renders at most
\* FEISHU_MAX_ITEMS articles
C25_RendersBoundedItems ==
    Returned("build_favorites_webhook_message")
    => Len(call.ret.rendered) <= FEISHU_MAX_ITEMS

RECURSIVE C26_IsSubsequence(_, _)
C26_IsSubsequence(sub, list) ==
    IF sub = <<>> THEN TRUE
    ELSE IF list = <<>> THEN FALSE
    ELSE IF sub[1] = list[1] THEN C26_IsSubsequence(Tail(sub), Tail(list))
    ELSE C26_IsSubsequence(sub, Tail(list))

C26_Places(list, flag) == {i \in DOMAIN list : flag[i]}

C26_Concatenation(item) == item.title \cup item.description \cup item.content

C27_TruncateIsPrefix ==
    Returned("truncate_text")
    => LET text == call.arg.text
           n == call.arg.max_chars
           k == IF Len(text) <= n THEN Len(text) ELSE n
       IN  /\ Len(call.ret) = k
           /\ \A i \in 1..k : call.ret[i] = text[i]
           /\ Len(call.ret) <= n
           /\ Len(text) <= n => call.ret = text
           /\ truncate_text(call.ret, n) = call.ret

\* a text of three characters cut to two
C27_Witness ==
    /\ Returned("truncate_text")
    /\ Len(call.arg.text) = 3
    /\ call.arg.max_chars = 2
    /\ Len(call.ret) = 2

\* C22: a fetch_rss_task or ai_summary_task body that ends, after whatever
\* exception was raised inside it, has returned status success or error, and the
\* step in which it ends leaves the scheduler's running state and its jobs as
\* they are (a firing cancelled by the shutdown of stop is not a body that ends)
C22_BodiesReturnStatus ==
    [][/\ \A b \in FetchSlots :
            /\ task[b].pc # "done" /\ task'[b].pc = "done"
            /\ task'[b].ret.status # "cancelled"
            => /\ task'[b].ret.status \in {"success", "error"}
               /\ is_running' = is_running /\ jobs' = jobs
       /\ \A j \in SumSlots :
            /\ sum_task[j].pc # "done" /\ sum_task'[j].pc = "done"
            /\ sum_task'[j].status # "cancelled"
            => /\ sum_task'[j].status \in {"success", "error"}
               /\ is_running' = is_running /\ jobs' = jobs]_vars

\* a scheduled fetch firing and a scheduled summary firing have each ended in an
\* error, the scheduler is running and both jobs are registered
C22_Witness ==
    /\ is_running
    /\ {job.id : job \in jobs} = {"fetch_rss", "ai_summary"}
    /\ \E b \in FetchSlots :
         task[b].origin = "job" /\ task[b].pc = "done" /\ task[b].ret.status = "error"
    /\ \E j \in SumSlots :
         sum_task[j].origin = "job" /\ sum_task[j].pc = "done" /\ sum_task[j].status = "error"

\* C29: a has_summary of the store changes only in the step that follows the
\* gather of a batch, when no call of the batch is waiting or in flight, and that
\* step writes every summary the batch produced and ends the batch
C29_BatchCommitsOnce ==
    [][(\E i \in DOMAIN articles : articles'[i].has_summary # articles[i].has_summary)
       => \E j \in SumSlots :
            /\ sum_task[j].pc = "gather" /\ sum_task'[j].pc = "done"
            /\ sum_task[j].todo = {} /\ sum_task[j].inflight = {}
            /\ \A k \in Summarized(sum_task[j].results) : articles'[k].has_summary
            /\ \A k \in DOMAIN articles :
                 articles'[k].has_summary # articles[k].has_summary
                 => k \in Summarized(sum_task[j].results)]_vars

\* a batch of two calls admitted one at a time has ended with both summaries
\* written
C29_Witness ==
    \E j \in SumSlots :
        /\ sum_task[j].pc = "done" /\ sum_task[j].max_concurrent = 1
        /\ sum_task[j].success_count = 2
        /\ Cardinality(DOMAIN sum_task[j].results) = 2
        /\ \A k \in Summarized(sum_task[j].results) : articles[k].has_summary

\* C28: while a filter pass runs, a step that changes the committed is_filtered
\* flags or match counters leaves nothing of the pass undone: no update of the
\* pass is still to come and no flag of the pass is still unwritten
C28_PassCommitsOnce ==
    [][/\ filter_pass.pc = "loop"
       /\ filter_pass'.pc \in {"loop", "done"}
       /\ \/ \E i \in DOMAIN articles : articles'[i].is_filtered # articles[i].is_filtered
          \/ \E r \in DOMAIN keywords : keywords'[r].match_count # keywords[r].match_count
       => /\ filter_pass'.todo = <<>>
          /\ filter_pass'.pending = {}]_vars

\* the rows the table held when the firing in slot b started
RowsAtStart(b) == SumPositive(task[b].prev.count, Sources)

\* a firing writes and filters only after every enabled source was fetched, and
\* filters only after its writes are committed
C30_FetchWriteFilterOrder ==
    \A b \in FetchSlots :
        /\ task[b].pc \in {"save", "mark", "filter"}
           => \A s \in task[b].srcs : task[b].fetch_results[s] # NoFetch
        /\ task[b].pc = "filter" => task[b].pending = <<>>

\* C30: a firing fetches every enabled source before it writes, writes before it
\* filters, and its filter step sets is_filtered only on rows the same firing
\* has saved
C30_FiltersOwnItems ==
    [][\A b \in FetchSlots :
          /\ C30_FetchWriteFilterOrder
          /\ task[b].pc = "filter" /\ task'[b].pc = "done"
             => \A i \in DOMAIN articles :
                   articles'[i].is_filtered /\ ~articles[i].is_filtered
                   => i > RowsAtStart(b)]_vars

\* C31: in a pass called with a list of ids, the empty list included, every row
\* the pass marks and every id it returns is in the list and was unfiltered
\* when the pass started
C31_MarksWithinCandidates ==
    [][filter_pass'.pc \in {"loop", "done"} /\ filter_pass'.article_ids.given
       => /\ \A i \in DOMAIN articles :
               articles'[i].is_filtered /\ ~articles[i].is_filtered
               => i \in filter_pass'.article_ids.ids
          /\ \A k \in DOMAIN filter_pass'.filtered_ids :
               filter_pass'.filtered_ids[k] \in filter_pass'.article_ids.ids
          /\ (filter_pass.pc \in {"idle", "done"} /\ filter_pass'.pc = "loop")
               => \A k \in DOMAIN filter_pass'.filtered_ids :
                     ~articles[filter_pass'.filtered_ids[k]].is_filtered]_vars

\* the rows a summary firing may select: unfiltered, without summary, with
\* content
Selectable(i) ==
    /\ ~articles[i].is_filtered /\ ~articles[i].has_summary
    /\ EntryContentLen(articles[i].guid) > 0

\* C32: the step that starts a summary firing hands it at most 20 rows, each
\* unfiltered, without summary and with content in the table as it is then; when
\* the table has no such row the firing ends at once with status success and
\* never reaches the summarizer, and otherwise it is handed at least one row
C32_BatchIsBoundedAndSelectable ==
    [][\A j \in SumSlots :
          nsum' = nsum + 1 /\ sum_task'[j] # sum_task[j] /\ sum_task'[j].origin # "direct"
          => /\ Cardinality(sum_task'[j].batch) <= 20
             /\ \A i \in sum_task'[j].batch : i \in DOMAIN articles /\ Selectable(i)
             /\ IF \E i \in DOMAIN articles : Selectable(i)
                THEN sum_task'[j].batch # {} /\ sum_task'[j].pc = "summarize"
                ELSE /\ sum_task'[j].pc = "done" /\ sum_task'[j].status = "success"
                     /\ articles' = articles]_vars

\* a firing was handed 20 rows of a table that holds more selectable rows
C32_Witness ==
    \E j \in SumSlots :
        /\ sum_task[j].origin = "job" /\ sum_task[j].pc = "summarize"
        /\ Cardinality(sum_task[j].batch) = 20
        /\ Cardinality({i \in DOMAIN articles : Selectable(i)}) > 20

\* the rows summarize_articles_batch accepts: unfiltered, without summary, with
\* content longer than the minimum
AwaitsSummary(i) ==
    /\ ~articles[i].is_filtered /\ ~articles[i].has_summary
    /\ EntryContentLen(articles[i].guid) > 50

C35_RunningFiringsDisjoint ==
    \A j, k \in SumSlots :
        j # k /\ sum_task[j].pc = "summarize" /\ sum_task[k].pc = "summarize"
        => ArticlesToSummarize(sum_task[j].objects) \cap ArticlesToSummarize(sum_task[k].objects)
           = {}

Core(text) ==
    LET inked == {k \in 1..Len(text) : text[k] # " "}
    IN  IF inked = {} THEN <<>>
        ELSE SubSeq(text, CHOOSE k \in inked : \A m \in inked : k <= m,
                          CHOOSE k \in inked : \A m \in inked : k >= m)

C38_LaterSourcesProcessed ==
    \A b \in FetchSlots :
        task[b].pc = "done" /\ task[b].ret.status = "error"
        => \A s \in task[b].srcs :
              Rank(s, task[b].srcs) > task[b].idx
              => IF task[b].fetch_results[s].kind = "ok"
                 THEN /\ sources[s].last_fetched = task[b].fno
                      /\ sources[s].fetch_error_count = 0
                      /\ \A k \in DOMAIN task[b].fetch_results[s].items :
                            RowsWithKey(s, task[b].fetch_results[s].items[k]) # {}
                 ELSE sources[s].fetch_error_count = task[b].cnt[s] + 1

\* C39: matches returns its tuple for every list of raw keywords and every
\* text; it raises nothing
C39_MatchesNeverRaises ==
    Returned("matches") => DOMAIN call.ret = {"is_match", "matched"}

\* C34: every fetch firing that has started ends, whatever the source answers
\* to each attempt, and a trigger that arrives while no firing of the job is
\* running starts a firing and is not skipped
C34_FiringEndsAndNextRuns ==
    /\ \A b \in FetchSlots : (task[b].pc \notin {"idle", "done"}) ~> (task[b].pc = "done")
    /\ [][fire_job("fetch_rss") /\ RunningFetch("job") = {}
          => /\ last_trigger' = [job |-> "fetch_rss", outcome |-> "run"]
             /\ nstarted' = nstarted + 1
             /\ RunningFetch("job")' # {}]_vars

\* a second firing of the job has been started after the first one ended with
\* the source failed
C34_Witness ==
    /\ last_trigger = [job |-> "fetch_rss", outcome |-> "run"]
    /\ sources[1].fetch_error_count = 1
    /\ \E b \in FetchSlots :
         task[b].origin = "job" /\ task[b].fno = 2 /\ task[b].pc = "fetch"

\* C37: an article raises keyword counters in one filter pass at most, however
\* the passes interleave: a counter never exceeds the number of articles marked
\* filtered, since a pass marks an article with the counters it raises for it
C37_CountedInOnePass ==
    \A r \in DOMAIN keywords :
        keywords[r].match_count <= Cardinality({i \in DOMAIN articles : articles[i].is_filtered})

\* C40: whatever the batch and the single-item summarizer have done, a stored
\* article with has_summary = TRUE has a non-empty summary and one with
\* has_summary = FALSE has no summary text
C40_SummaryIffHasSummary ==
    \A i \in DOMAIN articles : articles[i].has_summary <=> articles[i].summary # ""

\* a batch whose calls returned a summary for one article and an empty text for
\* another has been committed, and the single-item summarizer has summarized the
\* article whose content has the minimum length
C40_Witness ==
    /\ sum_task[1].pc = "done"
    /\ \E i, k \in DOMAIN sum_task[1].results :
         /\ sum_task[1].results[i] = "summary" /\ articles[i].has_summary
         /\ sum_task[1].results[k] = "empty" /\ ~articles[k].has_summary
    /\ \E i \in DOMAIN articles :
         EntryContentLen(articles[i].guid) = MIN_CONTENT_LENGTH /\ articles[i].has_summary

====
